---- MODULE Spec2Model ----
(***************************************************************************)
(* Model of the data-access gateway of the Salesforce dashboard backend:   *)
(*   app/auth/session.py      the in-memory session store                  *)
(*   app/config.py            Settings.is_demo                             *)
(*   app/dependencies.py      get_sf_client (provider resolution)          *)
(*   app/services/salesforce.py   query, query_all, get_opportunities      *)
(*   app/services/demo.py     DemoClient.get_opportunities                 *)
(*   app/routes/opportunities.py  list_opportunities                       *)
(***************************************************************************)
EXTENDS Integers, Sequences, FiniteSets, TLC

(***************************************************************************)
(* Bounds of the model.                                                    *)
(***************************************************************************)
\* number of distinct values secrets.token_urlsafe can return in the model
NumSessionIds == 2
\* result pages of one query_all call the model records in full; an upstream
\* that serves more is followed further, but the pages beyond are not recorded
MaxPages == 3
\* most records in one result page
MaxPageRecs == 1
\* most rows in the Opportunity table (the demo sheet, the upstream org)
MaxRows == 2
\* largest limit and offset a request is made with, besides the samples
\* outside the accepted range
MaxLimit == 2
MaxOffset == 3
NumTasks == 2

\* the token exchanges of a run of the gateway
MaxLogins == 2

(***************************************************************************)
(* Values.                                                                 *)
(***************************************************************************)
\* Python's None, as returned by dict.get on a missing key
None == [None |-> TRUE]

\* the identifiers secrets.token_urlsafe(32) draws from (non-empty strings)
SessionIds == 1 .. NumSessionIds

\* request.cookies.get("session_id"): absent (None), the empty string, or a
\* non-empty string; a non-empty string is either an identifier the process
\* can issue or one it never issues (NumSessionIds + 1)
NoCookie == -1
EmptyCookie == 0
Cookies == {NoCookie, EmptyCookie} \cup SessionIds \cup {NumSessionIds + 1}

\* keys of the token bundle the login callback stores
Fields == {"access_token", "refresh_token", "instance_url"}

AccessTokens == {"tokA", "tokB"}
RefreshTokens == {"refA"}
InstanceUrls == {"https://a", "https://b"}

FieldValues(f) ==
    CASE f = "access_token" -> AccessTokens
      [] f = "refresh_token" -> RefreshTokens
      [] f = "instance_url" -> InstanceUrls

\* the dicts routes/auth.py passes to create_session
Bundles ==
    { b \in [Fields -> AccessTokens \cup RefreshTokens \cup InstanceUrls] :
        \A f \in Fields : b[f] \in FieldValues(f) }

\* the dicts passed to update_session: any subset of the fields, each with
\* a value as a token refresh would set it
Refreshed(f) ==
    CASE f = "access_token" -> "tokB"
      [] f = "refresh_token" -> "refA"
      [] f = "instance_url" -> "https://b"

Partials == { [f \in D |-> Refreshed(f)] : D \in SUBSET Fields }

\* the environment: DEMO_MODE, SF_CLIENT_ID, SF_CLIENT_SECRET
SettingsSpace ==
    [demo_mode : BOOLEAN, sf_client_id : {"", "cid"}, sf_client_secret : {"", "sec"}]

\* a request without a q parameter
Absent == "absent"

VARIABLES
    settings,   \* the cached Settings object (config.get_settings)
    sessions,   \* session._sessions: identifier -> bundle
    call,       \* the operation that ran last: name, identifier, dict argument
    ret,        \* what it returned (or the HTTPException it raised)
    reads,      \* what get_sf_client read while resolving: cookie, store
    client,     \* the SalesforceClient a query_all call runs on
    qa_pc,      \* where that call stands
    qa_result,  \* its local `result`: the page received last
    qa_records, \* its local `records`
    inflight,   \* GET requests sent and not yet answered
    requested,  \* every GET request sent so far, in order
    served,     \* every response received so far, in order
    overrun,    \* the call went past MaxPages pages: the logs are cut off
    df,         \* the Opportunity rows: demo._df, and the upstream's table
    lreq,       \* the query parameters of a list_opportunities request
    lpc,        \* where that request stands
    ltotal,     \* get_opportunities' local `total`
    lresp,      \* the response of the request
    now,        \* datetime.now() as a dashboard request reads it
    dreq,       \* a dashboard request: its operation and parameters
    dpc,        \* where that request stands
    dacc,       \* the upstream answers get_kpi_summary holds so far
    dresp,      \* the response of the dashboard request
    file,       \* what the workbook behind demo._DATA_FILE holds
    cache,      \* the module global demo._df
    nreads,     \* how often pd.read_excel opened the workbook
    tasks,      \* the coroutines of the requests the event loop is serving
    running,    \* the coroutine the event loop is running, 0 for none
    cb,         \* a /auth/callback request
    posts,      \* the POST requests sent to the token endpoint, in order
    loggedOut   \* the session ids a logout has removed so far (history)

sessionVars == <<settings, sessions, call, ret, reads>>

queryVars == <<client, qa_pc, qa_result, qa_records, inflight, requested, served, overrun>>

listVars == <<df, lreq, lpc, ltotal, lresp>>

dashVars == <<now, dreq, dpc, dacc, dresp>>

loopVars == <<file, cache, nreads, tasks, running>>

authVars == <<cb, posts, loggedOut>>

vars == <<settings, sessions, call, ret, reads,
          now, dreq, dpc, dacc, dresp, file, cache, nreads, tasks, running, cb, posts, loggedOut,
          client, qa_pc, qa_result, qa_records, inflight, requested, served, overrun,
          df, lreq, lpc, ltotal, lresp>>

(***************************************************************************)
(* config.py                                                               *)
(***************************************************************************)
\* Settings.is_demo: demo_mode or not (sf_client_id and sf_client_secret)
is_demo(s) ==
    s.demo_mode \/ ~(s.sf_client_id # "" /\ s.sf_client_secret # "")

(***************************************************************************)
(* auth/session.py                                                         *)
(***************************************************************************)
\* _sessions.get(session_id)
SessionLookup(store, session_id) ==
    IF session_id \in DOMAIN store THEN store[session_id] ELSE None

\* dict.update: the keys of data overwrite, every other key is kept
DictUpdate(d, data) ==
    [k \in DOMAIN d \cup DOMAIN data |-> IF k \in DOMAIN data THEN data[k] ELSE d[k]]

\* a create that rebinds the whole store: _sessions = {session_id: data}
StorePutReset(store, session_id, data) ==
    [k \in {session_id} |-> data]

\* _sessions[session_id] = data
StorePut(store, session_id, data) ==
    [k \in DOMAIN store \cup {session_id} |->
        IF k = session_id THEN data ELSE store[k]]

\* a delete that empties the store: _sessions.clear()
StorePopClear(store, session_id) ==
    <<>>

\* _sessions.pop(session_id, None)
StorePop(store, session_id) ==
    [k \in DOMAIN store \ {session_id} |-> store[k]]

\* an update without the membership test:
\* _sessions.setdefault(session_id, {}).update(data)
StoreUpsert(store, session_id, data) ==
    [k \in DOMAIN store \cup {session_id} |->
        IF k = session_id
            THEN DictUpdate(IF k \in DOMAIN store THEN store[k] ELSE <<>>, data)
            ELSE store[k]]

\* if session_id in _sessions: _sessions[session_id].update(data)
StoreUpdate(store, session_id, data) ==
    IF session_id \in DOMAIN store
        THEN [store EXCEPT ![session_id] = DictUpdate(store[session_id], data)]
        ELSE store

\* create_session(data): session_id is the value token_urlsafe returned
create_session(data, session_id) ==
    /\ sessions' = StorePut(sessions, session_id, data)
    /\ call' = [op |-> "create_session", id |-> session_id, data |-> data]
    /\ ret' = session_id
    /\ UNCHANGED <<settings, reads, queryVars, listVars, dashVars, loopVars, authVars>>

get_session(session_id) ==
    /\ call' = [op |-> "get_session", id |-> session_id, data |-> None]
    /\ ret' = SessionLookup(sessions, session_id)
    /\ UNCHANGED <<settings, sessions, reads, queryVars, listVars, dashVars, loopVars, authVars>>

update_session(session_id, data) ==
    /\ sessions' = StoreUpdate(sessions, session_id, data)
    /\ call' = [op |-> "update_session", id |-> session_id, data |-> data]
    /\ ret' = None
    /\ UNCHANGED <<settings, reads, queryVars, listVars, dashVars, loopVars, authVars>>

delete_session(session_id) ==
    /\ sessions' = StorePop(sessions, session_id)
    /\ call' = [op |-> "delete_session", id |-> session_id, data |-> None]
    /\ ret' = None
    /\ UNCHANGED <<settings, reads, queryVars, listVars, dashVars, loopVars, authVars>>

(***************************************************************************)
(* dependencies.py                                                         *)
(***************************************************************************)
\* truthiness of a cookie value: None and "" are falsy
CookieTruthy(c) == c # NoCookie /\ c # EmptyCookie

\* truthiness of get_session's result: None and {} are falsy
SessionTruthy(s) == s # None /\ DOMAIN s # {}

HTTPException(status_code, detail) ==
    [kind |-> "HTTPException", status_code |-> status_code, detail |-> detail]

DemoClient == [kind |-> "DemoClient"]

SalesforceClient(instance_url, access_token) ==
    [kind |-> "SalesforceClient", instance_url |-> instance_url,
     access_token |-> access_token]

\* a resolution that looks for the session before it looks at the mode
ResolveSessionFirst(s, store, cookie) ==
    IF ~CookieTruthy(cookie)
        THEN [out |-> HTTPException(401, "Not authenticated"), reads |-> {"cookie"}]
    ELSE IF is_demo(s)
        THEN [out |-> DemoClient, reads |-> {"cookie"}]
    ELSE IF ~SessionTruthy(SessionLookup(store, cookie))
        THEN [out |-> HTTPException(401, "Session expired"),
              reads |-> {"cookie", "store"}]
    ELSE [out |-> SalesforceClient(SessionLookup(store, cookie)["instance_url"],
                                   SessionLookup(store, cookie)["access_token"]),
          reads |-> {"cookie", "store"}]

\* what get_sf_client returns or raises, and what it read on the way
Resolve(s, store, cookie) ==
    IF is_demo(s)
        THEN [out |-> DemoClient, reads |-> {}]
    ELSE IF ~CookieTruthy(cookie)
        THEN [out |-> HTTPException(401, "Not authenticated"), reads |-> {"cookie"}]
    ELSE IF ~SessionTruthy(SessionLookup(store, cookie))
        THEN [out |-> HTTPException(401, "Session expired"),
              reads |-> {"cookie", "store"}]
    ELSE [out |-> SalesforceClient(SessionLookup(store, cookie)["instance_url"],
                                   SessionLookup(store, cookie)["access_token"]),
          reads |-> {"cookie", "store"}]

get_sf_client(cookie) ==
    /\ call' = [op |-> "get_sf_client", id |-> cookie, data |-> None]
    /\ ret' = Resolve(settings, sessions, cookie).out
    /\ reads' = Resolve(settings, sessions, cookie).reads
    /\ UNCHANGED <<settings, sessions, queryVars, listVars, dashVars, loopVars, authVars>>

(***************************************************************************)
(* services/salesforce.py: query and query_all                             *)
(***************************************************************************)
\* the records of the page with index i holding n records: each record is
\* the pair <<page, position in the page>>
PageRecords(i, n) == [j \in 1 .. n |-> <<i, j>>]

\* a JSON object with the keys that are given: each argument is <<>> for a
\* missing key or <<v>> for the key with value v
Body(records, done, next_url) ==
    [k \in (IF records # <<>> THEN {"records"} ELSE {})
            \cup (IF done # <<>> THEN {"done"} ELSE {})
            \cup (IF next_url # <<>> THEN {"nextRecordsUrl"} ELSE {}) |->
        CASE k = "records" -> records[1]
          [] k = "done" -> done[1]
          [] k = "nextRecordsUrl" -> next_url[1]]

\* the JSON bodies the upstream may answer page i with: "records" a list or
\* missing, "done" true, false or missing, "nextRecordsUrl" a cursor of its
\* own for that page or missing
Bodies(i) ==
    { Body(r, d, n) :
        r \in {<<>>} \cup { <<PageRecords(i, m)>> : m \in 0 .. MaxPageRecs },
        d \in {<<>>, <<TRUE>>, <<FALSE>>},
        n \in {<<>>, <<i>>} }

\* a response: a status, and a JSON body when the status is 2xx
Responses(i) ==
    { [status |-> 200, body |-> b] : b \in Bodies(i) }
        \cup { [status |-> 500, body |-> <<>>] }

\* a check that lets a server error through: only 4xx raises
RaisesForClientError(resp) == resp.status >= 400 /\ resp.status < 500

\* resp.raise_for_status()
RaisesForStatus(resp) == resp.status < 200 \/ resp.status >= 300

\* result.get("records", [])
GetRecords(result) ==
    IF "records" \in DOMAIN result THEN result["records"] ELSE <<>>

\* a loop test that also stops when the page carries no cursor
GetDoneOrNoCursor(result) ==
    IF "done" \in DOMAIN result /\ "nextRecordsUrl" \in DOMAIN result
        THEN result["done"]
        ELSE TRUE

\* result.get("done", True)
GetDone(result) ==
    IF "done" \in DOMAIN result THEN result["done"] ELSE TRUE

\* f"{self.base_url}/query" with params q = soql
QueryRequest(c, soql) ==
    [url |-> <<c.instance_url, "/services/data/v59.0", "/query">>, q |-> soql,
     Authorization |-> c.access_token]

\* a continuation that asks the query endpoint again instead of following
\* the cursor
ContinuationRestart(c, next_url) ==
    [url |-> <<c.instance_url, "/services/data/v59.0", "/query">>, q |-> Absent,
     Authorization |-> c.access_token]

\* f"{self.instance_url}{next_url}"
ContinuationRequest(c, next_url) ==
    [url |-> <<c.instance_url, next_url>>, q |-> Absent,
     Authorization |-> c.access_token]

\* records.extend(more), as a value
Extend(records, more) == records \o more

\* the index of the page the next response carries
NextPage == IF Len(served) < MaxPages THEN Len(served) + 1 ELSE MaxPages + 1

\* the logs keep the first MaxPages exchanges
LogRequest(req) ==
    IF Len(requested) < MaxPages
        THEN requested' = Append(requested, req) /\ overrun' = overrun
        ELSE requested' = requested /\ overrun' = TRUE

LogResponse(resp) ==
    IF Len(served) < MaxPages
        THEN served' = Append(served, resp)
        ELSE served' = served

\* query_all line 41, first half: query() sends its GET
QueryAllCall(soql) ==
    /\ qa_pc = "idle"
    /\ inflight' = Append(inflight, QueryRequest(client, soql))
    /\ LogRequest(QueryRequest(client, soql))
    /\ qa_pc' = "query"
    /\ UNCHANGED <<sessionVars, listVars, dashVars, loopVars, authVars, client, qa_result, qa_records, served>>

\* query_all lines 41-42: the answer to that GET arrives
QueryAllFirstPage(resp) ==
    /\ qa_pc = "query"
    /\ inflight # <<>>
    /\ inflight' = Tail(inflight)
    /\ LogResponse(resp)
    /\ IF RaisesForStatus(resp)
        THEN /\ qa_pc' = "raised"
             /\ UNCHANGED <<qa_result, qa_records>>
        ELSE /\ qa_result' = resp.body
             /\ qa_records' = GetRecords(resp.body)
             /\ qa_pc' = "while"
    /\ UNCHANGED <<sessionVars, listVars, dashVars, loopVars, authVars, client, requested, overrun>>

\* query_all lines 44-50: the loop test, and the next GET when it passes
QueryAllLoop ==
    /\ qa_pc = "while"
    /\ IF GetDone(qa_result)
        THEN /\ qa_pc' = "returned"
             /\ UNCHANGED <<inflight, requested, overrun>>
        ELSE IF "nextRecordsUrl" \notin DOMAIN qa_result
            THEN /\ qa_pc' = "raised"
                 /\ UNCHANGED <<inflight, requested, overrun>>
            ELSE /\ inflight' =
                        Append(inflight,
                               ContinuationRequest(client, qa_result["nextRecordsUrl"]))
                 /\ LogRequest(ContinuationRequest(client, qa_result["nextRecordsUrl"]))
                 /\ qa_pc' = "get"
    /\ UNCHANGED <<sessionVars, listVars, dashVars, loopVars, authVars, client, qa_result, qa_records, served>>

\* query_all lines 51-53: the answer to a continuation GET arrives
QueryAllNextPage(resp) ==
    /\ qa_pc = "get"
    /\ inflight # <<>>
    /\ inflight' = Tail(inflight)
    /\ LogResponse(resp)
    /\ IF RaisesForStatus(resp)
        THEN /\ qa_pc' = "raised"
             /\ UNCHANGED <<qa_result, qa_records>>
        ELSE /\ qa_result' = resp.body
             /\ qa_records' =
                    IF Len(served) < MaxPages
                        THEN Extend(qa_records, GetRecords(resp.body))
                        ELSE qa_records
             /\ qa_pc' = "while"
    /\ UNCHANGED <<sessionVars, listVars, dashVars, loopVars, authVars, client, requested, overrun>>

(***************************************************************************)
(* The session store and the gateway as one process: any request may call  *)
(* any operation at any time.                                              *)
(***************************************************************************)
(***************************************************************************)
(* Text.  A string that ends up inside a SOQL statement is a sequence of   *)
(* pieces: a piece is a quote character, a word (a run of characters with  *)
(* no quote and no space in it) or a number.                               *)
(***************************************************************************)
W(s) == [k |-> "w", s |-> s]
Q == [k |-> "q"]
Num(n) == [k |-> "n", n |-> n]

\* an optional argument: <<>> is None, <<v>> is the value v
Nothing == <<>>
Some(v) == <<v>>

\* Python truthiness of an optional str: None and "" are falsy
StrTruthy(o) == o # Nothing /\ o[1] # <<>>

(***************************************************************************)
(* The Opportunity rows.                                                   *)
(***************************************************************************)
\* a missing Amount (NaN in the frame, null upstream)
NullAmount == -1

\* the rows a table is made of: two stages, two owners, amounts missing,
\* 10 and 20, three close dates
RowKinds ==
    { [StageName |-> <<W("A")>>, OwnerId |-> <<W("o1")>>, Amount |-> 10, CloseDate |-> 2],
      [StageName |-> <<W("A")>>, OwnerId |-> <<W("o2")>>, Amount |-> 20, CloseDate |-> 1],
      [StageName |-> <<W("B")>>, OwnerId |-> <<W("o1")>>, Amount |-> 20, CloseDate |-> 3],
      [StageName |-> <<W("B")>>, OwnerId |-> <<W("o2")>>, Amount |-> NullAmount, CloseDate |-> 2],
      [StageName |-> <<W("A")>>, OwnerId |-> <<W("o1")>>, Amount |-> NullAmount, CloseDate |-> 1],
      [StageName |-> <<W("B")>>, OwnerId |-> <<W("o2")>>, Amount |-> 10, CloseDate |-> 3] }

\* a row of the table: the sheet's columns, Id being the row's position
TableRow(kind, i) ==
    [Id |-> i, StageName |-> kind.StageName, OwnerId |-> kind.OwnerId,
     Amount |-> kind.Amount, CloseDate |-> kind.CloseDate]

Tables ==
    UNION { { [i \in 1 .. n |-> TableRow(f[i], i)] : f \in [1 .. n -> RowKinds] } :
                n \in 0 .. MaxRows }

Columns == {"Id", "StageName", "OwnerId", "Amount", "CloseDate"}

(***************************************************************************)
(* routes/opportunities.py: the query parameters                           *)
(***************************************************************************)
\* Query(50, ge=1, le=200)
LimitMin == 1
LimitMax == 200
\* Query(0, ge=0)
OffsetMin == 0

\* limit and offset as sent: the accepted pairs up to the bounds, the largest
\* accepted limit, and samples outside the accepted range
Paginations ==
    { <<l, o>> : l \in 1 .. MaxLimit, o \in 0 .. MaxOffset }
        \cup { <<LimitMax, 0>>, <<LimitMin - 1, 0>>, <<LimitMax + 1, 0>>,
               <<1, OffsetMin - 1>> }

\* the stage parameter as sent: none, empty, a stage name, a name with a
\* quote in it, and a value that closes the literal and adds a condition
StageParams ==
    { Nothing,
      Some(<<>>),
      Some(<<W("A")>>),
      Some(<<W("A"), Q, W("s")>>),
      Some(<<W("A"), Q, W("AND"), W("StageName"), W("!="), Q>>) }

OwnerParams == { Nothing, Some(<<W("o1")>>) }

MinAmountParams == { Nothing, Some(20) }

\* sort_by and sort_dir as sent
SortParams ==
    { <<"CloseDate", "DESC">>, <<"Amount", "asc">>, <<"Bogus", "DESC">> }

ListRequests ==
    { [limit |-> pg[1], offset |-> pg[2], stage |-> st, owner_id |-> ow,
       min_amount |-> ma, sort_by |-> so[1], sort_dir |-> so[2]] :
        pg \in Paginations, st \in StageParams, ow \in OwnerParams,
        ma \in MinAmountParams, so \in SortParams }

\* a limit without its upper end: Query(50, ge=1), Query(0, ge=0)
ValidPaginationNoMax(req) ==
    /\ req.limit >= LimitMin
    /\ req.offset >= OffsetMin

\* FastAPI's validation of limit and offset
ValidPagination(req) ==
    /\ req.limit >= LimitMin
    /\ req.limit <= LimitMax
    /\ req.offset >= OffsetMin

(***************************************************************************)
(* services/demo.py: DemoClient.get_opportunities                          *)
(***************************************************************************)
\* df[df["Amount"].notna()]
NotNa(amount) == amount # NullAmount

\* lines 108-116: the rows that pass the filters, in table order
DemoFilter(table, req) ==
    SelectSeq(table, LAMBDA row :
        /\ NotNa(row.Amount)
        /\ StrTruthy(req.stage) => row.StageName = req.stage[1]
        /\ StrTruthy(req.owner_id) => row.OwnerId = req.owner_id[1]
        /\ req.min_amount # Nothing => row.Amount >= req.min_amount[1])

\* col_map.get(sort_by, sort_by)
SortColumn(sort_by) ==
    CASE sort_by = "Owner.Name" -> "OwnerName"
      [] sort_by = "Account.Name" -> "AccountName"
      [] OTHER -> sort_by

\* sort_dir.upper() == "ASC"
Ascending(sort_dir) == sort_dir \in {"ASC", "asc", "Asc"}

\* row a goes before row b when sorting on column col
Before(a, b, col, asc) ==
    IF asc THEN a[col] < b[col] ELSE a[col] > b[col]

\* sort_values on one column: rows with equal keys keep their order
RECURSIVE SortValues(_, _, _)
SortValues(rows, col, asc) ==
    IF rows = <<>>
        THEN <<>>
        ELSE LET rest == SortValues(Tail(rows), col, asc)
                 head == Head(rows)
                 \* rest rows that go strictly before head
                 k == Cardinality({ i \in 1 .. Len(rest) :
                                        Before(rest[i], head, col, asc) })
             IN  SubSeq(rest, 1, k) \o <<head>> \o SubSeq(rest, k + 1, Len(rest))

\* lines 119-129
DemoSort(rows, req) ==
    IF SortColumn(req.sort_by) \in Columns
        THEN SortValues(rows, SortColumn(req.sort_by), Ascending(req.sort_dir))
        ELSE rows

\* a slice that starts one row late: filtered.iloc[offset + 1: offset + limit]
ILocShifted(rows, offset, limit) ==
    SubSeq(rows, offset + 2,
           IF offset + limit < Len(rows) THEN offset + limit ELSE Len(rows))

\* filtered.iloc[offset: offset + limit], offset >= 0 and limit >= 1
ILoc(rows, offset, limit) ==
    SubSeq(rows, offset + 1,
           IF offset + limit < Len(rows) THEN offset + limit ELSE Len(rows))

\* lines 107-157
\* row.get(column, ""): the value of a column the sheet has
RowGet(row, column) == IF column \in DOMAIN row THEN row[column] ELSE ""

\* .isoformat() of a date
IsoFormat(d) == <<"iso", d>>

\* the dict get_opportunities builds from a row of the page
DemoRecord(row) ==
    [Id |-> RowGet(row, "Id"),
     Name |-> RowGet(row, "Name"),
     StageName |-> RowGet(row, "StageName"),
     Amount |-> IF NotNa(row.Amount) THEN row.Amount ELSE 0,
     CloseDate |-> IsoFormat(row.CloseDate),
     Probability |-> IF "Probability" \in DOMAIN row THEN row.Probability ELSE 0,
     Owner |-> [Name |-> RowGet(row, "OwnerName")],
     Account |-> [Name |-> RowGet(row, "AccountName")],
     Type |-> RowGet(row, "Type"),
     CreatedDate |-> IF "CreatedDate" \in DOMAIN row THEN IsoFormat(row.CreatedDate) ELSE "",
     ProductName |-> RowGet(row, "ProductName"),
     ProductFamily |-> RowGet(row, "ProductFamily"),
     OpportunityID |-> RowGet(row, "OpportunityID")]

DemoGetOpportunities(table, req) ==
    LET filtered == DemoSort(DemoFilter(table, req), req)
        page == ILoc(filtered, req.offset, req.limit)
    IN  [records |-> [i \in 1 .. Len(page) |-> DemoRecord(page[i])],
         total |-> Len(filtered),
         limit |-> req.limit,
         offset |-> req.offset]

(***************************************************************************)
(* services/salesforce.py: SalesforceClient.get_opportunities              *)
(***************************************************************************)
\* " AND ".join(conditions)
RECURSIVE JoinAnd(_)
JoinAnd(conditions) ==
    IF Len(conditions) = 1
        THEN conditions[1]
        ELSE conditions[1] \o <<W("AND")>> \o JoinAnd(Tail(conditions))

\* f"StageName = '{stage}'"
StageCondition(stage) ==
    <<W("StageName"), W("="), Q>> \o stage \o <<Q>>

\* f"OwnerId = '{owner_id}'"
OwnerCondition(owner_id) ==
    <<W("OwnerId"), W("="), Q>> \o owner_id \o <<Q>>

\* lines 98-106
WhereClause(req) ==
    JoinAnd(<<<<W("Amount"), W("!="), W("null")>>>>
            \o (IF StrTruthy(req.stage) THEN <<StageCondition(req.stage[1])>> ELSE <<>>)
            \o (IF StrTruthy(req.owner_id) THEN <<OwnerCondition(req.owner_id[1])>> ELSE <<>>)
            \o (IF req.min_amount # Nothing
                    THEN <<<<W("Amount"), W(">="), Num(req.min_amount[1])>>>>
                    ELSE <<>>))

\* line 110
CountStatement(req) ==
    <<W("SELECT"), W("COUNT()"), W("FROM"), W("Opportunity"), W("WHERE")>>
        \o WhereClause(req)

\* the fields the page statement selects
SelectList ==
    "Id, Name, StageName, Amount, CloseDate, Probability, Owner.Name, Account.Name, Type, CreatedDate, LastModifiedDate"

\* lines 115-122
PageStatement(req) ==
    <<W("SELECT"), W(SelectList), W("FROM"), W("Opportunity"), W("WHERE")>>
        \o WhereClause(req)
        \o <<W("ORDER"), W("BY"), W(req.sort_by), W(req.sort_dir),
             W("LIMIT"), Num(req.limit), W("OFFSET"), Num(req.offset)>>

(***************************************************************************)
(* The upstream's query endpoint, as far as these statements go: it splits *)
(* the text into tokens, a quote opening and the next quote closing a      *)
(* string literal, reads a conjunction of comparisons and an optional      *)
(* ORDER BY .. LIMIT .. OFFSET .., and runs that on its table.             *)
(***************************************************************************)
Str(content) == [k |-> "s", s |-> content]

Malformed == [ok |-> FALSE]

\* tokens of text[i..], toks being those before; in_str: inside a literal
\* whose content so far is cur
RECURSIVE Lex(_, _, _, _, _)
Lex(text, i, in_str, cur, toks) ==
    IF i > Len(text)
        THEN IF in_str THEN Malformed ELSE [ok |-> TRUE, toks |-> toks]
    ELSE IF in_str
        THEN IF text[i] = Q
                THEN Lex(text, i + 1, FALSE, <<>>, Append(toks, Str(cur)))
                ELSE Lex(text, i + 1, TRUE, Append(cur, text[i]), toks)
    ELSE IF text[i] = Q
        THEN Lex(text, i + 1, TRUE, <<>>, toks)
        ELSE Lex(text, i + 1, FALSE, <<>>, Append(toks, text[i]))

\* one comparison the endpoint accepts on these fields
ValidCondition(f, op, lit) ==
    \/ f = W("Amount") /\ op = W("!=") /\ lit = W("null")
    \/ f = W("Amount") /\ op = W(">=") /\ lit.k = "n"
    \/ f \in {W("StageName"), W("OwnerId")} /\ op \in {W("="), W("!=")} /\ lit.k = "s"

\* the comparisons that start at token i, joined by AND
RECURSIVE ParseConditions(_, _, _)
ParseConditions(toks, i, acc) ==
    IF i + 2 > Len(toks) \/ ~ValidCondition(toks[i], toks[i + 1], toks[i + 2])
        THEN Malformed
        ELSE LET acc2 == Append(acc, [f |-> toks[i].s, op |-> toks[i + 1].s,
                                      lit |-> toks[i + 2]])
             IN  IF i + 3 <= Len(toks) /\ toks[i + 3] = W("AND")
                    THEN ParseConditions(toks, i + 4, acc2)
                    ELSE [ok |-> TRUE, conds |-> acc2, next |-> i + 3]

SortableFields == {"CloseDate", "Amount", "Id"}

\* ORDER BY f d LIMIT n OFFSET m, from token i to the end
ValidTail(toks, i) ==
    /\ Len(toks) = i + 7
    /\ toks[i] = W("ORDER") /\ toks[i + 1] = W("BY")
    /\ toks[i + 2].k = "w" /\ toks[i + 2].s \in SortableFields
    /\ toks[i + 3] \in {W("ASC"), W("DESC"), W("asc"), W("desc")}
    /\ toks[i + 4] = W("LIMIT") /\ toks[i + 5].k = "n" /\ toks[i + 5].n >= 0
    /\ toks[i + 6] = W("OFFSET") /\ toks[i + 7].k = "n" /\ toks[i + 7].n >= 0

\* does the row satisfy the comparison
Holds(row, c) ==
    CASE c.op = "!=" /\ c.f = "Amount" -> row.Amount # NullAmount
      [] c.op = ">=" -> row.Amount # NullAmount /\ row.Amount >= c.lit.n
      [] c.op = "=" -> row[c.f] = c.lit.s
      [] c.op = "!=" /\ c.f # "Amount" -> row[c.f] # c.lit.s

Matching(table, conds) ==
    SelectSeq(table, LAMBDA row : \A j \in 1 .. Len(conds) : Holds(row, conds[j]))

\* the attributes entry the upstream puts into every record
Attributes(type) == [type |-> type]

\* the names at the top of a record for a select list the endpoint knows
SelectedNames(select) ==
    IF select = SelectList
        THEN {"Id", "Name", "StageName", "Amount", "CloseDate", "Probability", "Owner",
              "Account", "Type", "CreatedDate", "LastModifiedDate"}
        ELSE {}

\* the record the endpoint returns for a row: its attributes and the
\* selected fields, a parent's field inside a record of the parent
UpstreamRecord(row, select) ==
    [k \in {"attributes"} \cup SelectedNames(select) |->
        CASE k = "attributes" -> Attributes("Opportunity")
          [] k = "Owner" -> [attributes |-> Attributes("User"), Name |-> ""]
          [] k = "Account" -> [attributes |-> Attributes("Account"), Name |-> ""]
          [] k \in DOMAIN row -> row[k]
          [] OTHER -> ""]

\* the endpoint's answer to a statement: status 400 for a statement it
\* cannot read, else the JSON body
UpstreamQuery(table, text) ==
    LET lexed == Lex(text, 1, FALSE, <<>>, <<>>)
        toks == lexed.toks
        head_ok == /\ lexed.ok
                   /\ Len(toks) >= 5
                   /\ toks[1] = W("SELECT") /\ toks[3] = W("FROM")
                   /\ toks[4] = W("Opportunity") /\ toks[5] = W("WHERE")
        parsed == ParseConditions(toks, 6, <<>>)
        rows == Matching(table, parsed.conds)
        at == parsed.next
    IN  IF ~head_ok THEN [status |-> 400, body |-> <<>>]
        ELSE IF ~parsed.ok THEN [status |-> 400, body |-> <<>>]
        ELSE IF toks[2] = W("COUNT()")
            THEN IF at = Len(toks) + 1
                    THEN [status |-> 200,
                          body |-> [totalSize |-> Len(rows), records |-> <<>>,
                                    done |-> TRUE]]
                    ELSE [status |-> 400, body |-> <<>>]
        ELSE IF ~ValidTail(toks, at) THEN [status |-> 400, body |-> <<>>]
        ELSE LET sorted == SortValues(rows, toks[at + 2].s,
                                      toks[at + 3] \in {W("ASC"), W("asc")})
                 page == ILoc(sorted, toks[at + 7].n, toks[at + 5].n)
             IN  [status |-> 200,
                  body |-> [totalSize |-> Len(page),
                            records |-> [i \in 1 .. Len(page) |->
                                            UpstreamRecord(page[i], toks[2].s)],
                            done |-> TRUE]]

(***************************************************************************)
(* routes/opportunities.py: list_opportunities                             *)
(***************************************************************************)
\* the request arrives: FastAPI validates limit and offset, then the
\* provider's get_opportunities starts; the demo provider answers at once,
\* the live one sends its count statement
ListOpportunities ==
    /\ lpc = "start"
    /\ IF ~ValidPagination(lreq)
        THEN /\ lresp' = [status |-> 422, body |-> <<>>]
             /\ lpc' = "done"
        ELSE IF client = DemoClient
            THEN /\ lresp' = [status |-> 200, body |-> DemoGetOpportunities(df, lreq)]
                 /\ lpc' = "done"
            ELSE /\ lresp' = lresp
                 /\ lpc' = "count"
    /\ UNCHANGED <<sessionVars, queryVars, dashVars, loopVars, authVars, df, lreq, ltotal>>

\* lines 109-112 and 123: the count statement is answered, the page
\* statement is sent
LiveCount ==
    /\ lpc = "count"
    /\ LET resp == UpstreamQuery(df, CountStatement(lreq))
       IN  IF RaisesForStatus(resp)
            THEN /\ lresp' = [status |-> 500, body |-> <<>>]
                 /\ lpc' = "done"
                 /\ ltotal' = ltotal
            ELSE /\ ltotal' = resp.body["totalSize"]
                 /\ lpc' = "page"
                 /\ lresp' = lresp
    /\ UNCHANGED <<sessionVars, queryVars, dashVars, loopVars, authVars, df, lreq>>

\* lines 123-130: the page statement is answered
LivePage ==
    /\ lpc = "page"
    /\ LET resp == UpstreamQuery(df, PageStatement(lreq))
       IN  IF RaisesForStatus(resp)
            THEN lresp' = [status |-> 500, body |-> <<>>]
            ELSE lresp' = [status |-> 200,
                           body |-> [records |-> GetRecords(resp.body),
                                     total |-> ltotal,
                                     limit |-> lreq.limit,
                                     offset |-> lreq.offset]]
    /\ lpc' = "done"
    /\ UNCHANGED <<sessionVars, queryVars, dashVars, loopVars, authVars, df, lreq, ltotal>>

SessionInit ==
    /\ sessions = <<>>
    /\ call = [op |-> "none", id |-> NoCookie, data |-> None]
    /\ ret = None
    /\ reads = {}

QueryInit ==
    /\ qa_pc = "idle"
    /\ qa_result = <<>>
    /\ qa_records = <<>>
    /\ inflight = <<>>
    /\ requested = <<>>
    /\ served = <<>>
    /\ overrun = FALSE

\* no list_opportunities request
ListIdle ==
    /\ df = <<>>
    /\ lreq = <<>>
    /\ lpc = "idle"
    /\ ltotal = 0
    /\ lresp = <<>>

\* no dashboard request
DashIdle ==
    /\ now = <<>>
    /\ dreq = <<>>
    /\ dpc = "idle"
    /\ dacc = <<>>
    /\ dresp = <<>>

\* no coroutine, the workbook not looked at
LoopIdle ==
    /\ file = "none"
    /\ cache = <<>>
    /\ nreads = 0
    /\ tasks = <<>>
    /\ running = 0

\* no /auth/callback request
AuthIdle ==
    /\ cb = <<>>
    /\ posts = <<>>
    /\ loggedOut = {}

\* nothing but the part a specification is about
OthersIdle == DashIdle /\ LoopIdle /\ AuthIdle

Init ==
    /\ OthersIdle
    /\ settings \in SettingsSpace
    /\ SessionInit
    /\ client = SalesforceClient("https://a", "tokA")
    /\ QueryInit
    /\ ListIdle

Next ==
    \/ \E data \in Bundles, session_id \in SessionIds : create_session(data, session_id)
    \/ \E session_id \in SessionIds : get_session(session_id)
    \/ \E session_id \in SessionIds, data \in Partials : update_session(session_id, data)
    \/ \E session_id \in SessionIds : delete_session(session_id)
    \/ \E cookie \in Cookies : get_sf_client(cookie)

Spec == Init /\ [][Next]_vars

(***************************************************************************)
(* One query_all call on a live client, against an upstream that answers   *)
(* each GET with any status and any body.                                  *)
(***************************************************************************)
QueryAllInit ==
    /\ OthersIdle
    /\ settings = [demo_mode |-> FALSE, sf_client_id |-> "cid", sf_client_secret |-> "sec"]
    /\ SessionInit
    /\ client \in { SalesforceClient(u, "tokA") : u \in InstanceUrls }
    /\ QueryInit
    /\ ListIdle

QueryAllNext ==
    \/ QueryAllCall("SELECT")
    \/ \E resp \in Responses(NextPage) : QueryAllFirstPage(resp)
    \/ QueryAllLoop
    \/ \E resp \in Responses(NextPage) : QueryAllNextPage(resp)

QueryAllSpec == QueryAllInit /\ [][QueryAllNext]_vars

\* the event loop runs the coroutine whenever it can run, and the upstream
\* answers every request
QueryAllFairSpec == QueryAllSpec /\ WF_vars(QueryAllNext)

(***************************************************************************)
(* One list_opportunities request, on either provider, for every table     *)
(* and every request of the bounded sets.                                  *)
(***************************************************************************)
ListInit ==
    /\ OthersIdle
    /\ settings \in { [demo_mode |-> d, sf_client_id |-> "cid", sf_client_secret |-> "sec"] :
                        d \in BOOLEAN }
    /\ SessionInit
    /\ client = Resolve(settings, [k \in {1} |-> [access_token |-> "tokA",
                                                   refresh_token |-> "refA",
                                                   instance_url |-> "https://a"]], 1).out
    /\ QueryInit
    /\ df \in Tables
    /\ lreq \in ListRequests
    /\ lpc = "start"
    /\ ltotal = 0
    /\ lresp = <<>>

ListNext ==
    \/ ListOpportunities
    \/ LiveCount
    \/ LivePage

ListSpec == ListInit /\ [][ListNext]_vars

(***************************************************************************)
(* The dashboard operations: stage breakdown, pipeline over time, KPI      *)
(* summary.  Dates are the days of the years 2025 to 2027, none of them a  *)
(* leap year, numbered from 1 for 2025-01-01.                              *)
(***************************************************************************)
FirstYear == 2025

\* days in the months before each month of a year
DaysBefore == <<0, 31, 59, 90, 120, 151, 181, 212, 243, 273, 304, 334>>

\* datetime(year, month, day) as a day number
Date(year, month, day) == (365 * (year - FirstYear)) + DaysBefore[month] + day

\* .year of a day number
YearOf(d) == FirstYear + ((d - 1) \div 365)

\* .month of a day number
MonthOf(d) ==
    LET doy == ((d - 1) % 365) + 1
    IN  CHOOSE m \in 1 .. 12 :
            /\ DaysBefore[m] < doy
            /\ m < 12 => doy <= DaysBefore[m + 1]

\* a datetime: a day and whether the time of day is past midnight
DateTime(day, late) == [day |-> day, late |-> late]

\* datetime - timedelta(days=n), datetime + timedelta(days=n)
MinusDays(dt, n) == [dt EXCEPT !.day = @ - n]

PlusDays(dt, n) == [dt EXCEPT !.day = @ + n]

\* a CloseDate (midnight of its day) >= a datetime, < a datetime
NotBefore(closeDate, dt) == closeDate > dt.day \/ (closeDate = dt.day /\ ~dt.late)

Earlier(closeDate, dt) == closeDate < dt.day \/ (closeDate = dt.day /\ dt.late)

\* the stage names, listed as Python orders strings
StageNames == <<"Negotiation", "Prospecting">>

\* a < b on stage names
StageLess(a, b) ==
    \E i, j \in 1 .. Len(StageNames) :
        StageNames[i] = a /\ StageNames[j] = b /\ i < j

\* the rows of the Opportunities sheet the dashboard operations read
OppRow(stage, amount, closed, won, closeDate) ==
    [StageName |-> stage, Amount |-> amount, IsClosed |-> closed, IsWon |-> won,
     CloseDate |-> closeDate]

\* the tables of at most MaxRows rows over a set of rows
TablesOver(kinds) ==
    UNION { { [i \in 1 .. n |-> [Id |-> i] @@ t[i]] : t \in [1 .. n -> kinds] } :
            n \in 0 .. MaxRows }

\* a JSON number: the fraction num / den; a missing value is None, the float
\* that is no number is NaN
Float(num, den) == [num |-> num, den |-> den]

NaN == [nan |-> TRUE]

\* series.sum(): missing values are skipped, nothing left sums to 0
RECURSIVE SumAmount(_)
SumAmount(rows) ==
    IF rows = <<>> THEN 0
    ELSE (IF NotNa(Head(rows).Amount) THEN Head(rows).Amount ELSE 0) + SumAmount(Tail(rows))

\* df[df["IsClosed"] == True] in place of the open rows
ClosedRows(table) == SelectSeq(table, LAMBDA row : row.IsClosed = TRUE)

\* df[df["IsClosed"] == False]
OpenRows(table) == SelectSeq(table, LAMBDA row : row.IsClosed = FALSE)

\* the stage names of a groupby, in ascending order
SortedStages(keys) ==
    [i \in 1 .. Cardinality(keys) |->
        CHOOSE k \in keys : Cardinality({ x \in keys : StageLess(x, k) }) = i - 1]

\* DemoClient.get_opportunity_stages
DemoGetOpportunityStages(table) ==
    LET open_df == OpenRows(table)
        names == SortedStages({ open_df[i].StageName : i \in 1 .. Len(open_df) })
        group(name) == SelectSeq(open_df, LAMBDA row : row.StageName = name)
    IN  [i \in 1 .. Len(names) |->
            [StageName |-> names[i],
             cnt |-> Len(group(names[i])),
             total_amount |-> Float(SumAmount(group(names[i])), 1)]]

\* SUM(Amount) of the upstream: null when no row has an amount
UpstreamSum(rows) ==
    IF \E i \in 1 .. Len(rows) : NotNa(rows[i].Amount)
        THEN Float(SumAmount(rows), 1) ELSE None

\* the upstream's answer to the statement of get_opportunity_stages
UpstreamStages(table) ==
    LET open == SelectSeq(table, LAMBDA row : row.IsClosed = FALSE)
        names == SortedStages({ open[i].StageName : i \in 1 .. Len(open) })
        group(name) == SelectSeq(open, LAMBDA row : row.StageName = name)
    IN  [status |-> 200,
         body |-> Body(Some([i \in 1 .. Len(names) |->
                                [attributes |-> Attributes("AggregateResult"),
                                 StageName |-> names[i],
                                 cnt |-> Len(group(names[i])),
                                 total_amount |-> UpstreamSum(group(names[i]))]]),
                       Some(TRUE), Nothing)]

\* the rows of a table with an amount
WithAmount(rows) == SelectSeq(rows, LAMBDA row : NotNa(row.Amount))

\* series.mean(): the mean of the values that are not missing, NaN when
\* there is none
MeanAmount(rows) ==
    IF WithAmount(rows) = <<>> THEN NaN
    ELSE Float(SumAmount(rows), Len(WithAmount(rows)))

\* (year, month) a before (year, month) b
MonthLess(a, b) == a[1] < b[1] \/ (a[1] = b[1] /\ a[2] < b[2])

\* the (year, month) keys of a groupby, in ascending order
SortedMonths(keys) ==
    [i \in 1 .. Cardinality(keys) |->
        CHOOSE k \in keys : Cardinality({ x \in keys : MonthLess(x, k) }) = i - 1]

\* DemoClient.get_pipeline_over_time
DemoGetPipelineOverTime(table, months, clock) ==
    LET cutoff == MinusDays(clock, months * 30)
        recent == SelectSeq(table, LAMBDA row : NotBefore(row.CloseDate, cutoff))
        bucket(row) == <<YearOf(row.CloseDate), MonthOf(row.CloseDate)>>
        keys == SortedMonths({ bucket(recent[i]) : i \in 1 .. Len(recent) })
        group(key) == SelectSeq(recent, LAMBDA row : bucket(row) = key)
    IN  [i \in 1 .. Len(keys) |->
            [month |-> keys[i][2], year |-> keys[i][1],
             total |-> Float(SumAmount(group(keys[i])), 1),
             cnt |-> Len(group(keys[i]))]]

\* months since January of FirstYear
MonthIndex(year, month) == (12 * (year - FirstYear)) + month

\* the upstream's answer to the statement of get_pipeline_over_time:
\* LAST_N_MONTHS:n is the n calendar months before the current one
UpstreamPipeline(table, months, clock) ==
    LET this == MonthIndex(YearOf(clock.day), MonthOf(clock.day))
        index(row) == MonthIndex(YearOf(row.CloseDate), MonthOf(row.CloseDate))
        recent == SelectSeq(table, LAMBDA row : index(row) >= this - months /\ index(row) < this)
        bucket(row) == <<YearOf(row.CloseDate), MonthOf(row.CloseDate)>>
        keys == SortedMonths({ bucket(recent[i]) : i \in 1 .. Len(recent) })
        group(key) == SelectSeq(recent, LAMBDA row : bucket(row) = key)
    IN  [status |-> 200,
         body |-> Body(Some([i \in 1 .. Len(keys) |->
                                [attributes |-> Attributes("AggregateResult"),
                                 month |-> keys[i][2], year |-> keys[i][1],
                                 total |-> UpstreamSum(group(keys[i])),
                                 cnt |-> Len(group(keys[i]))]]),
                       Some(TRUE), Nothing)]

\* datetime(now.year, (now.month - 1) // 3 * 3 + 1, 1)
QuarterStart(clock) ==
    DateTime(Date(YearOf(clock.day), (((MonthOf(clock.day) - 1) \div 3) * 3) + 1, 1), FALSE)

\* the length of the quarter window in days
QuarterDays == 92

\* DemoClient.get_kpi_summary
DemoGetKpiSummary(table, clock) ==
    LET open_df == OpenRows(table)
        q_start == QuarterStart(clock)
        q_end == PlusDays(q_start, QuarterDays)
        in_quarter(row) == NotBefore(row.CloseDate, q_start) /\ Earlier(row.CloseDate, q_end)
        won_df == SelectSeq(table, LAMBDA row : row.IsWon = TRUE /\ in_quarter(row))
        lost_df == SelectSeq(table, LAMBDA row :
                        row.IsClosed = TRUE /\ row.IsWon = FALSE /\ in_quarter(row))
    IN  [open_pipeline |->
            [count |-> Len(open_df),
             total |-> Float(SumAmount(open_df), 1),
             average |-> IF Len(open_df) # 0 THEN MeanAmount(open_df) ELSE Float(0, 1)],
         won_this_quarter |->
            [count |-> Len(won_df), total |-> Float(SumAmount(won_df), 1)],
         lost_this_quarter |->
            [count |-> Len(lost_df), total |-> Float(SumAmount(lost_df), 1)]]

\* the three statements of SalesforceClient.get_kpi_summary
KpiStatements == <<"soql_open", "soql_won", "soql_lost">>

\* the rows a KPI statement selects; THIS_FISCAL_QUARTER is the calendar
\* quarter of the clock
KpiSelected(table, statement, clock) ==
    LET q == (MonthIndex(YearOf(clock.day), MonthOf(clock.day)) - 1) \div 3
        in_quarter(row) ==
            (MonthIndex(YearOf(row.CloseDate), MonthOf(row.CloseDate)) - 1) \div 3 = q
    IN  SelectSeq(table, LAMBDA row :
            /\ NotNa(row.Amount)
            /\ CASE statement = "soql_open" -> row.IsClosed = FALSE
                 [] statement = "soql_won" -> row.IsWon = TRUE /\ in_quarter(row)
                 [] statement = "soql_lost" ->
                        row.IsWon = FALSE /\ row.IsClosed = TRUE /\ in_quarter(row))

\* a key of an aggregate record, or no such key
Entry(key, value) == IF value = <<>> THEN <<>> ELSE << <<key, value[1]>> >>

\* a record from its entries
Record(entries) ==
    [k \in { entries[i][1] : i \in 1 .. Len(entries) } |->
        (CHOOSE e \in { entries[i] : i \in 1 .. Len(entries) } : e[1] = k)[2]]

\* the upstream's answers to a KPI statement: one aggregate row, its sum and
\* average null when no row is selected, or then no row at all
UpstreamKpi(table, statement, clock) ==
    LET rows == KpiSelected(table, statement, clock)
        row == Record(Entry("attributes", Some(Attributes("AggregateResult")))
                      \o Entry("cnt", Some(Len(rows)))
                      \o Entry("total", Some(UpstreamSum(rows)))
                      \o Entry("avg_amount",
                               IF statement # "soql_open" THEN Nothing
                               ELSE IF rows = <<>> THEN Some(None)
                               ELSE Some(Float(SumAmount(rows), Len(rows)))))
    IN  { [status |-> 200, body |-> Body(Some(<<row>>), Some(TRUE), Nothing)] }
            \cup (IF rows = <<>>
                    THEN { [status |-> 200, body |-> Body(Some(<<>>), Some(TRUE), Nothing)] }
                    ELSE {})

\* rec.get(key, 0)
GetOrZero(rec, key) == IF key \in DOMAIN rec THEN rec[key] ELSE 0

\* rec.get(key, 0) of a sum or an average
GetOrZeroFloat(rec, key) == IF key \in DOMAIN rec THEN rec[key] ELSE Float(0, 1)

\* _extract
Extract(result) ==
    IF GetRecords(result) # <<>> THEN result["records"][1] ELSE <<>>

\* the return statement of SalesforceClient.get_kpi_summary
LiveKpiSummary(open_result, won_result, lost_result) ==
    LET open_rec == Extract(open_result)
        won_rec == Extract(won_result)
        lost_rec == Extract(lost_result)
    IN  [open_pipeline |->
            [count |-> GetOrZero(open_rec, "cnt"),
             total |-> GetOrZeroFloat(open_rec, "total"),
             average |-> GetOrZeroFloat(open_rec, "avg_amount")],
         won_this_quarter |->
            [count |-> GetOrZero(won_rec, "cnt"), total |-> GetOrZeroFloat(won_rec, "total")],
         lost_this_quarter |->
            [count |-> GetOrZero(lost_rec, "cnt"), total |-> GetOrZeroFloat(lost_rec, "total")]]

\* what the demo provider returns for a dashboard request, as its route
\* wraps it
DemoDashboard(table, req, clock) ==
    CASE req.op = "stages" -> [stages |-> DemoGetOpportunityStages(table)]
      [] req.op = "pipeline" -> [pipeline |-> DemoGetPipelineOverTime(table, req.months, clock)]
      [] req.op = "kpis" -> DemoGetKpiSummary(table, clock)

\* how many statements the live provider sends for a dashboard request
Statements(req) == IF req.op = "kpis" THEN Len(KpiStatements) ELSE 1

\* the upstream's possible answers to the k-th statement of a request: an
\* error, or the rows the statement asks for
UpstreamAnswers(table, req, clock, k) ==
    IF req = <<>> \/ k > Statements(req) THEN {}
    ELSE { [status |-> 500, body |-> <<>>] } \cup
         CASE req.op = "stages" -> { UpstreamStages(table) }
           [] req.op = "pipeline" -> { UpstreamPipeline(table, req.months, clock) }
           [] req.op = "kpis" -> UpstreamKpi(table, KpiStatements[k], clock)

\* what the live provider returns from the bodies it received, as its
\* route wraps it
LiveDashboard(req, results) ==
    CASE req.op = "stages" -> [stages |-> GetRecords(results[1])]
      [] req.op = "pipeline" -> [pipeline |-> GetRecords(results[1])]
      [] req.op = "kpis" -> LiveKpiSummary(results[1], results[2], results[3])

\* get_kpis, get_stages, get_pipeline: the demo provider answers from the
\* table, the live provider sends its first statement
Dashboard ==
    /\ dpc = "start"
    /\ IF client = DemoClient
        THEN /\ dresp' = [status |-> 200, body |-> DemoDashboard(df, dreq, now)]
             /\ dpc' = "done"
        ELSE /\ dresp' = dresp
             /\ dpc' = "query"
    /\ UNCHANGED <<sessionVars, queryVars, listVars, loopVars, authVars, now, dreq, dacc>>

\* SalesforceClient.query returns or raises; the provider sends the next
\* statement or returns
DashboardAnswer(resp) ==
    /\ dpc = "query"
    /\ resp \in UpstreamAnswers(df, dreq, now, Len(dacc) + 1)
    /\ IF RaisesForStatus(resp)
        THEN /\ dresp' = [status |-> 500, body |-> <<>>]
             /\ dpc' = "done"
             /\ dacc' = dacc
        ELSE /\ dacc' = Append(dacc, resp.body)
             /\ IF Len(dacc') < Statements(dreq)
                 THEN /\ dpc' = "query"
                      /\ dresp' = dresp
                 ELSE /\ dpc' = "done"
                      /\ dresp' = [status |-> 200, body |-> LiveDashboard(dreq, dacc')]
    /\ UNCHANGED <<sessionVars, queryVars, listVars, loopVars, authVars, now, dreq>>

(***************************************************************************)
(* One dashboard request, on either provider, at two clocks.               *)
(***************************************************************************)
\* the clocks: a first of March and a second of November, past midnight
Clocks == { DateTime(Date(2026, 3, 1), TRUE), DateTime(Date(2026, 11, 2), TRUE) }

\* rows for the stage breakdown: two stages, open or closed
StageKinds ==
    { OppRow(st, a, c, FALSE, Date(2026, 2, 10)) :
        st \in { StageNames[i] : i \in 1 .. Len(StageNames) },
        a \in {NullAmount, 10, 20}, c \in BOOLEAN }

\* rows for the pipeline: close dates before, inside and after the window
PipelineKinds ==
    { OppRow("Prospecting", a, FALSE, FALSE, d) :
        a \in {NullAmount, 10},
        d \in { Date(2025, 3, 15), Date(2026, 1, 31), Date(2026, 2, 10),
                Date(2026, 3, 1), Date(2026, 4, 15), Date(2026, 10, 20) } }

\* rows for the KPI summary: open, won or lost, in three quarters
KpiKinds ==
    { OppRow("Prospecting", a, cw[1], cw[2], d) :
        a \in {NullAmount, 10},
        cw \in { <<FALSE, FALSE>>, <<TRUE, TRUE>>, <<TRUE, FALSE>> },
        d \in { Date(2026, 2, 10), Date(2026, 4, 1), Date(2026, 10, 20) } }

\* the months parameter of get_pipeline
MonthsParams == {1, 12}

DashInit ==
    /\ LoopIdle
    /\ AuthIdle
    /\ settings \in { [demo_mode |-> d, sf_client_id |-> "cid", sf_client_secret |-> "sec"] :
                        d \in BOOLEAN }
    /\ SessionInit
    /\ client = Resolve(settings, [k \in {1} |-> [access_token |-> "tokA",
                                                   refresh_token |-> "refA",
                                                   instance_url |-> "https://a"]], 1).out
    /\ QueryInit
    /\ lreq = <<>>
    /\ lpc = "idle"
    /\ ltotal = 0
    /\ lresp = <<>>
    /\ now \in Clocks
    /\ \/ /\ dreq = [op |-> "stages", months |-> 0]
          /\ df \in TablesOver(StageKinds)
       \/ /\ dreq \in { [op |-> "pipeline", months |-> m] : m \in MonthsParams }
          /\ df \in TablesOver(PipelineKinds)
       \/ /\ dreq = [op |-> "kpis", months |-> 0]
          /\ df \in TablesOver(KpiKinds)
    /\ dpc = "start"
    /\ dacc = <<>>
    /\ dresp = <<>>

DashNext ==
    \/ Dashboard
    \/ \E resp \in UpstreamAnswers(df, dreq, now, Len(dacc) + 1) : DashboardAnswer(resp)

DashSpec == DashInit /\ [][DashNext]_vars

(***************************************************************************)
(* One list_opportunities request on the demo provider, for every small    *)
(* table and every ordering of a five-row fixture.                         *)
(***************************************************************************)
\* the fixture: three rows of stage A with an amount of at least 20, one row
\* of another stage, one row below that amount
Fixture ==
    << [StageName |-> <<W("A")>>, OwnerId |-> <<W("o1")>>, Amount |-> 20, CloseDate |-> 1],
       [StageName |-> <<W("A")>>, OwnerId |-> <<W("o2")>>, Amount |-> 40, CloseDate |-> 3],
       [StageName |-> <<W("A")>>, OwnerId |-> <<W("o1")>>, Amount |-> 30, CloseDate |-> 2],
       [StageName |-> <<W("B")>>, OwnerId |-> <<W("o2")>>, Amount |-> 40, CloseDate |-> 1],
       [StageName |-> <<W("A")>>, OwnerId |-> <<W("o1")>>, Amount |-> 10, CloseDate |-> 3] >>

\* the fixture's rows in every order
FixtureTables ==
    { [i \in 1 .. Len(Fixture) |-> TableRow(Fixture[p[i]], i)] :
        p \in Permutations(1 .. Len(Fixture)) }

\* the requests made of the demo provider: accepted limit and offset, no
\* quote in the stage, and every sort of SortParams besides Amount DESC
DemoRequests ==
    { [limit |-> l, offset |-> o, stage |-> st, owner_id |-> ow,
       min_amount |-> ma, sort_by |-> so[1], sort_dir |-> so[2]] :
        l \in 1 .. MaxLimit, o \in 0 .. MaxOffset,
        st \in { Nothing, Some(<<>>), Some(<<W("A")>>) },
        ow \in OwnerParams, ma \in MinAmountParams,
        so \in SortParams \cup { <<"Amount", "DESC">> } }

DemoListInit ==
    /\ OthersIdle
    /\ settings = [demo_mode |-> TRUE, sf_client_id |-> "cid", sf_client_secret |-> "sec"]
    /\ SessionInit
    /\ client = Resolve(settings, <<>>, NoCookie).out
    /\ QueryInit
    /\ df \in Tables \cup FixtureTables
    /\ lreq \in DemoRequests
    /\ lpc = "start"
    /\ ltotal = 0
    /\ lresp = <<>>

DemoListNext == ListOpportunities

DemoListSpec == DemoListInit /\ [][DemoListNext]_vars

(***************************************************************************)
(* One list_opportunities request with any limit and offset, on either     *)
(* provider, over a table of at most one row.                              *)
(***************************************************************************)
PaginationInit ==
    /\ OthersIdle
    /\ settings \in { [demo_mode |-> d, sf_client_id |-> "cid", sf_client_secret |-> "sec"] :
                        d \in BOOLEAN }
    /\ SessionInit
    /\ client = Resolve(settings, [k \in {1} |-> [access_token |-> "tokA",
                                                   refresh_token |-> "refA",
                                                   instance_url |-> "https://a"]], 1).out
    /\ QueryInit
    /\ df \in { t \in Tables : Len(t) <= 1 }
    /\ lreq \in ListRequests
    /\ lpc = "start"
    /\ ltotal = 0
    /\ lresp = <<>>

PaginationNext ==
    \/ ListOpportunities
    \/ LiveCount
    \/ LivePage

PaginationSpec == PaginationInit /\ [][PaginationNext]_vars

(***************************************************************************)
(* The OAuth callback and the token exchange.                              *)
(***************************************************************************)
\* truthiness of an optional string parameter: None and "" are falsy
ParamTruthy(o) == o # Nothing /\ o[1] # ""

\* the code and error parameters of /auth/callback as sent
CodeParams == { Nothing, Some(""), Some("code1"), Some("code2") }

ErrorParams == { Nothing, Some(""), Some("access_denied") }

\* the form exchange_code_for_tokens posts to TOKEN_URL
TokenRequest(s, code) ==
    [url |-> "TOKEN_URL",
     data |-> [grant_type |-> "authorization_code",
               client_id |-> s.sf_client_id,
               client_secret |-> s.sf_client_secret,
               redirect_uri |-> "sf_redirect_uri",
               code |-> code]]

\* a JSON object of the token endpoint from its entries
TokenBody(access_token, refresh_token, instance_url) ==
    Record(Entry("access_token", access_token) \o Entry("refresh_token", refresh_token)
           \o Entry("instance_url", instance_url))

\* what the token endpoint may answer: the tokens with or without a refresh
\* token, a 2xx body without tokens, a redirect, an error; status 0 stands
\* for a request that got no response
TokenResponses ==
    { [status |-> st, body |-> TokenBody(Some(a), r, Some(u))] :
        st \in {200, 201}, a \in AccessTokens,
        r \in { Nothing } \cup { Some(x) : x \in RefreshTokens }, u \in InstanceUrls }
    \cup { [status |-> 200, body |-> <<>>] }
    \cup { [status |-> st, body |-> [error |-> "invalid_grant"]] : st \in {302, 400, 500} }
    \cup { [status |-> 0, body |-> <<>>] }

\* tokens.get("refresh_token")
GetRefreshToken(tokens) ==
    IF "refresh_token" \in DOMAIN tokens THEN tokens["refresh_token"] ELSE None

\* callback up to its await: an error parameter redirects, a missing code
\* is a 400, else exchange_code_for_tokens posts the code
Callback ==
    /\ cb # <<>>
    /\ cb.pc = "start"
    /\ IF ParamTruthy(cb.error)
        THEN /\ cb' = [cb EXCEPT !.pc = "done",
                                 !.response = [status |-> 307, cookie |-> Nothing,
                                               location |-> <<"frontend_url", "?error=", cb.error[1]>>]]
             /\ posts' = posts
        ELSE IF ~ParamTruthy(cb.code)
            THEN /\ cb' = [cb EXCEPT !.pc = "done",
                                     !.response = HTTPException(400, "Missing authorization code")]
                 /\ posts' = posts
            ELSE /\ cb' = [cb EXCEPT !.pc = "post", !.exchange = "called"]
                 /\ posts' = Append(posts, TokenRequest(settings, cb.code[1]))
    /\ UNCHANGED <<sessionVars, queryVars, listVars, dashVars, loopVars, loggedOut>>

\* the POST is answered: exchange_code_for_tokens raises or returns the
\* body, and callback stores the tokens under a new identifier and sets the
\* cookie
CallbackResume(resp, session_id) ==
    /\ cb # <<>>
    /\ cb.pc = "post"
    /\ IF resp.status = 0 \/ RaisesForStatus(resp)
        THEN /\ cb' = [cb EXCEPT !.pc = "done", !.exchange = "raised", !.received = Some(resp),
                                 !.response = [status |-> 500, cookie |-> Nothing,
                                               location |-> <<>>]]
             /\ UNCHANGED <<sessions, call, ret>>
        ELSE LET tokens == resp.body
             IN  IF {"access_token", "instance_url"} \subseteq DOMAIN tokens
                    THEN LET data == [access_token |-> tokens["access_token"],
                                      refresh_token |-> GetRefreshToken(tokens),
                                      instance_url |-> tokens["instance_url"]]
                         IN  /\ sessions' = StorePut(sessions, session_id, data)
                             /\ call' = [op |-> "create_session", id |-> session_id,
                                         data |-> data]
                             /\ ret' = session_id
                             /\ cb' = [cb EXCEPT !.pc = "done", !.exchange = "returned",
                                                 !.received = Some(resp),
                                                 !.tokens = Some(tokens),
                                                 !.response = [status |-> 307,
                                                               cookie |-> Some(session_id),
                                                               location |-> <<"frontend_url">>]]
                    ELSE /\ cb' = [cb EXCEPT !.pc = "done", !.exchange = "returned",
                                             !.received = Some(resp),
                                             !.tokens = Some(tokens),
                                             !.response = [status |-> 500, cookie |-> Nothing,
                                                           location |-> <<>>]]
                         /\ UNCHANGED <<sessions, call, ret>>
    /\ posts' = posts
    /\ UNCHANGED <<settings, reads, queryVars, listVars, dashVars, loopVars, loggedOut>>

\* a callback request arrives at a server in live mode, its store empty or
\* holding a session
CallbackInit ==
    /\ DashIdle
    /\ LoopIdle
    /\ settings = [demo_mode |-> FALSE, sf_client_id |-> "cid", sf_client_secret |-> "sec"]
    /\ sessions \in { <<>> } \cup { [k \in {1} |-> b] : b \in Bundles }
    /\ call = [op |-> "none", id |-> NoCookie, data |-> None]
    /\ ret = None
    /\ reads = {}
    /\ client = SalesforceClient("https://a", "tokA")
    /\ QueryInit
    /\ ListIdle
    /\ cb \in { [pc |-> "start", code |-> c, error |-> e, exchange |-> "none",
                 received |-> Nothing, tokens |-> Nothing, response |-> <<>>] :
                    c \in CodeParams, e \in ErrorParams }
    /\ posts = <<>>
    /\ loggedOut = {}

CallbackNext ==
    \/ Callback
    \/ \E resp \in TokenResponses, session_id \in SessionIds : CallbackResume(resp, session_id)

CallbackSpec == CallbackInit /\ [][CallbackNext]_vars

(***************************************************************************)
(* The event loop.  The handlers are coroutines on one loop: a coroutine   *)
(* that runs keeps the loop until it awaits, returns or raises.            *)
(***************************************************************************)
Tasks == 1 .. NumTasks

\* the loop lets coroutine t run
MayRun(t) == running = 0 \/ running = t

\* who holds the loop after a step that leaves coroutine t at pc, where it
\* awaits or not
LoopAfter(t, pc, awaits) ==
    IF pc \in {"done", "raised"} \/ awaits THEN 0 ELSE t

(***************************************************************************)
(* demo._load under concurrent offline requests.                           *)
(***************************************************************************)
\* what the workbook holds: a sheet that loads, no readable sheet, a
\* CloseDate column that does not convert, a CreatedDate column that does
\* not convert
Files == {"ok", "unreadable", "bad_close", "bad_created"}

\* the operations of the demo provider, each of which starts with _load()
DemoOps == {"kpis", "stages", "pipeline", "opportunities"}

\* a _load that hands the loop back before it reads the workbook
LoadAwaitsRead(pc) == pc = "read"

\* the statements of _load at which the coroutine awaits: none
LoadAwaits(pc) == FALSE

\* the frame pd.read_excel returns: a new object, nothing normalized
ReadExcel(k) == [obj |-> k, renamed |-> FALSE, close |-> FALSE, created |-> FALSE]

\* one statement of coroutine t ran: its new place, the cache, the reads
LoadStep(t, pc, result, newCache, newReads) ==
    /\ tasks' = [tasks EXCEPT ![t] = [@ EXCEPT !.pc = pc, !.result = result]]
    /\ running' = LoopAfter(t, pc, LoadAwaits(pc))
    /\ cache' = newCache
    /\ nreads' = newReads
    /\ UNCHANGED <<sessionVars, queryVars, listVars, dashVars, authVars, file>>

\* df = _load(): if _df is None ... else return _df
LoadTest(t) ==
    /\ tasks[t].pc = "start"
    /\ MayRun(t)
    /\ IF cache = <<>>
        THEN LoadStep(t, "read", Nothing, cache, nreads)
        ELSE LoadStep(t, "done", Some(cache), cache, nreads)

\* _df = pd.read_excel(_DATA_FILE, sheet_name="Opportunities")
LoadReadExcel(t) ==
    /\ tasks[t].pc = "read"
    /\ MayRun(t)
    /\ IF file = "unreadable"
        THEN LoadStep(t, "raised", Nothing, cache, nreads)
        ELSE LoadStep(t, "rename", Nothing, ReadExcel(nreads + 1), nreads + 1)

\* _df = _df.rename(columns=...)
LoadRename(t) ==
    /\ tasks[t].pc = "rename"
    /\ MayRun(t)
    /\ LoadStep(t, "close", Nothing, [cache EXCEPT !.renamed = TRUE], nreads)

\* _df["CloseDate"] = pd.to_datetime(_df["CloseDate"])
LoadCloseDate(t) ==
    /\ tasks[t].pc = "close"
    /\ MayRun(t)
    /\ IF file = "bad_close"
        THEN LoadStep(t, "raised", Nothing, cache, nreads)
        ELSE LoadStep(t, "created", Nothing, [cache EXCEPT !.close = TRUE], nreads)

\* _df["CreatedDate"] = pd.to_datetime(_df["CreatedDate"]); return _df
LoadCreatedDate(t) ==
    /\ tasks[t].pc = "created"
    /\ MayRun(t)
    /\ IF file = "bad_created"
        THEN LoadStep(t, "raised", Nothing, cache, nreads)
        ELSE LoadStep(t, "done", Some([cache EXCEPT !.created = TRUE]),
                      [cache EXCEPT !.created = TRUE], nreads)

LoadInit ==
    /\ DashIdle
    /\ AuthIdle
    /\ settings = [demo_mode |-> TRUE, sf_client_id |-> "", sf_client_secret |-> ""]
    /\ SessionInit
    /\ client = SalesforceClient("https://a", "tokA")
    /\ QueryInit
    /\ ListIdle
    /\ file \in Files
    /\ cache = <<>>
    /\ nreads = 0
    /\ tasks \in [Tasks -> { [op |-> op, pc |-> "start", result |-> Nothing] : op \in DemoOps }]
    /\ running = 0

LoadNext ==
    \/ \E t \in Tasks : LoadTest(t)
    \/ \E t \in Tasks : LoadReadExcel(t)
    \/ \E t \in Tasks : LoadRename(t)
    \/ \E t \in Tasks : LoadCloseDate(t)
    \/ \E t \in Tasks : LoadCreatedDate(t)

LoadSpec == LoadInit /\ [][LoadNext]_vars

(***************************************************************************)
(* The session store under concurrent requests.                            *)
(***************************************************************************)
\* the store the requests find: one session
StoreAtStart ==
    [k \in {1} |-> [access_token |-> "tokA", refresh_token |-> "refA",
                    instance_url |-> "https://a"]]

\* the store calls of the requests: create with a bundle, get, update with
\* a refreshed field, delete
StoreCalls ==
    { [op |-> "create_session", id |-> NoCookie, data |-> b] :
        b \in { x \in Bundles : x.instance_url = "https://a" } }
    \cup { [op |-> "get_session", id |-> i, data |-> None] : i \in SessionIds }
    \cup { [op |-> "update_session", id |-> i, data |-> d] :
            i \in SessionIds,
            d \in { [f \in {"access_token"} |-> Refreshed(f)],
                    [f \in {"instance_url"} |-> Refreshed(f)] } }
    \cup { [op |-> "delete_session", id |-> i, data |-> None] : i \in SessionIds }

\* an update_session that hands the loop back between its test and its
\* update
StoreAwaitsUpdate(pc) == pc = "update"

\* the statements of the store operations at which the coroutine awaits:
\* none
StoreAwaits(pc) == FALSE

\* what create_session returns
Created(session_id) == [session_id |-> session_id]

\* one statement of coroutine t ran
StoreStep(t, pc, id, value, store) ==
    /\ tasks' = [tasks EXCEPT ![t] = [@ EXCEPT !.pc = pc, !.id = id, !.ret = value]]
    /\ running' = LoopAfter(t, pc, StoreAwaits(pc))
    /\ sessions' = store
    /\ UNCHANGED <<settings, call, ret, reads, queryVars, listVars, dashVars, authVars,
                   file, cache, nreads>>

\* session_id = secrets.token_urlsafe(32)
TaskToken(t, session_id) ==
    /\ tasks[t].op = "create_session" /\ tasks[t].pc = "start"
    /\ MayRun(t)
    /\ StoreStep(t, "put", session_id, None, sessions)

\* _sessions[session_id] = data; return session_id
TaskPut(t) ==
    /\ tasks[t].pc = "put"
    /\ MayRun(t)
    /\ StoreStep(t, "done", tasks[t].id, Created(tasks[t].id),
                 StorePut(sessions, tasks[t].id, tasks[t].data))

\* return _sessions.get(session_id)
TaskGet(t) ==
    /\ tasks[t].op = "get_session" /\ tasks[t].pc = "start"
    /\ MayRun(t)
    /\ StoreStep(t, "done", tasks[t].id, SessionLookup(sessions, tasks[t].id), sessions)

\* if session_id in _sessions:
TaskUpdateTest(t) ==
    /\ tasks[t].op = "update_session" /\ tasks[t].pc = "start"
    /\ MayRun(t)
    /\ IF tasks[t].id \in DOMAIN sessions
        THEN StoreStep(t, "update", tasks[t].id, None, sessions)
        ELSE StoreStep(t, "done", tasks[t].id, None, sessions)

\* _sessions[session_id].update(data): a KeyError without the session
TaskUpdate(t) ==
    /\ tasks[t].pc = "update"
    /\ MayRun(t)
    /\ IF tasks[t].id \in DOMAIN sessions
        THEN StoreStep(t, "done", tasks[t].id, None,
                       StoreUpdate(sessions, tasks[t].id, tasks[t].data))
        ELSE StoreStep(t, "raised", tasks[t].id, None, sessions)

\* _sessions.pop(session_id, None)
TaskDelete(t) ==
    /\ tasks[t].op = "delete_session" /\ tasks[t].pc = "start"
    /\ MayRun(t)
    /\ StoreStep(t, "done", tasks[t].id, None, StorePop(sessions, tasks[t].id))

StoreInit ==
    /\ DashIdle
    /\ AuthIdle
    /\ settings = [demo_mode |-> FALSE, sf_client_id |-> "cid", sf_client_secret |-> "sec"]
    /\ sessions = StoreAtStart
    /\ call = [op |-> "none", id |-> NoCookie, data |-> None]
    /\ ret = None
    /\ reads = {}
    /\ client = SalesforceClient("https://a", "tokA")
    /\ QueryInit
    /\ ListIdle
    /\ file = "none"
    /\ cache = <<>>
    /\ nreads = 0
    /\ tasks \in [Tasks -> { [op |-> c.op, id |-> c.id, data |-> c.data,
                              pc |-> "start", ret |-> None] : c \in StoreCalls }]
    /\ running = 0

StoreNext ==
    \/ \E t \in Tasks, session_id \in SessionIds : TaskToken(t, session_id)
    \/ \E t \in Tasks : TaskPut(t)
    \/ \E t \in Tasks : TaskGet(t)
    \/ \E t \in Tasks : TaskUpdateTest(t)
    \/ \E t \in Tasks : TaskUpdate(t)
    \/ \E t \in Tasks : TaskDelete(t)

StoreSpec == StoreInit /\ [][StoreNext]_vars

(***************************************************************************)
(* routes/auth.py: auth_status and logout, and the gateway as a whole: the *)
(* login callback, status, logout, and the dependency get_sf_client that   *)
(* the four dashboard routes and list_opportunities run before they call   *)
(* the provider.  No route calls update_session or refresh_access_token.   *)
(***************************************************************************)
\* auth_status: get_session only for a truthy cookie; `session is not None`
auth_status(cookie) ==
    /\ call' = [op |-> "auth_status", id |-> cookie, data |-> None]
    /\ ret' = [authenticated |->
                    IF CookieTruthy(cookie)
                        THEN SessionLookup(sessions, cookie) # None
                        ELSE FALSE]
    /\ UNCHANGED <<settings, sessions, reads, queryVars, listVars, dashVars, loopVars, authVars>>

\* logout: delete_session for a truthy cookie, then a redirect that deletes
\* the cookie
logout(cookie) ==
    /\ sessions' = IF CookieTruthy(cookie) THEN StorePop(sessions, cookie) ELSE sessions
    /\ call' = [op |-> "logout", id |-> cookie, data |-> None]
    /\ ret' = [status |-> 307, delete_cookie |-> "session_id", location |-> <<"frontend_url">>]
    /\ loggedOut' = IF CookieTruthy(cookie) /\ cookie \in DOMAIN sessions
                        THEN loggedOut \cup {cookie}
                        ELSE loggedOut
    /\ UNCHANGED <<settings, reads, queryVars, listVars, dashVars, loopVars, cb, posts>>

\* the parameters and the token endpoint's answers of the gateway runs: a
\* code or none, an error or none; tokens with a refresh token, tokens
\* without one, a refusal
GatewayCodes == { Nothing, Some("code1") }

GatewayErrors == { Nothing, Some("access_denied") }

GatewayResponses ==
    { [status |-> 200, body |-> TokenBody(Some("tokA"), Some("refA"), Some("https://a"))],
      [status |-> 200, body |-> TokenBody(Some("tokB"), Nothing, Some("https://b"))],
      [status |-> 400, body |-> [error |-> "invalid_grant"]] }

\* a request to /auth/callback arrives while none is being handled
CallbackArrives(code, error) ==
    /\ IF cb = <<>> THEN TRUE ELSE cb.pc = "done"
    /\ Len(posts) < MaxLogins
    /\ cb' = [pc |-> "start", code |-> code, error |-> error, exchange |-> "none",
              received |-> Nothing, tokens |-> Nothing, response |-> <<>>]
    /\ UNCHANGED <<sessionVars, queryVars, listVars, dashVars, loopVars, posts, loggedOut>>

\* a server in either mode, nobody logged in
GatewayInit ==
    /\ DashIdle
    /\ LoopIdle
    /\ AuthIdle
    /\ settings \in { [demo_mode |-> d, sf_client_id |-> "cid", sf_client_secret |-> "sec"] :
                        d \in BOOLEAN }
    /\ SessionInit
    /\ client = SalesforceClient("https://a", "tokA")
    /\ QueryInit
    /\ ListIdle

GatewayNext ==
    \/ \E code \in GatewayCodes, error \in GatewayErrors : CallbackArrives(code, error)
    \/ Callback
    \/ \E resp \in GatewayResponses, session_id \in SessionIds :
            CallbackResume(resp, session_id)
    \/ \E cookie \in Cookies : auth_status(cookie)
    \/ \E cookie \in Cookies : logout(cookie)
    \/ \E cookie \in Cookies : get_sf_client(cookie)

GatewaySpec == GatewayInit /\ [][GatewayNext]_vars

(***************************************************************************)
(* Properties of the gateway resolution and of the session store.          *)
(***************************************************************************)
\* offline mode as the configuration states it: the flag is set, or the
\* client id or the client secret is empty
OfflineConfigured ==
    \/ settings.demo_mode
    \/ settings.sf_client_id = ""
    \/ settings.sf_client_secret = ""

\* C1: get_sf_client decides in this order: offline mode configured -> the
\* offline provider, with neither the cookie nor the store read; otherwise no
\* session_id (cookie absent or empty) -> 401 Not authenticated; otherwise
\* session_id not a key of the store -> 401 Session expired; otherwise, and
\* only then, a live client with exactly that session's instance_url and
\* access_token.
C1_ResolutionOrder ==
    call.op = "get_sf_client" =>
        /\ OfflineConfigured => ret = DemoClient /\ reads = {}
        /\ (~OfflineConfigured /\ call.id \in {NoCookie, EmptyCookie}) =>
                ret = HTTPException(401, "Not authenticated") /\ "store" \notin reads
        /\ (~OfflineConfigured /\ call.id \notin {NoCookie, EmptyCookie}
                /\ call.id \notin DOMAIN sessions) =>
                ret = HTTPException(401, "Session expired")
        /\ ret.kind = "SalesforceClient" <=>
                (~OfflineConfigured /\ call.id \in DOMAIN sessions)
        /\ ret.kind = "SalesforceClient" =>
                /\ ret.instance_url = sessions[call.id]["instance_url"]
                /\ ret.access_token = sessions[call.id]["access_token"]

\* a live client was handed out while another session with another token and
\* another instance is in the store
C1_Witness ==
    /\ call.op = "get_sf_client"
    /\ ret.kind = "SalesforceClient"
    /\ \E other \in DOMAIN sessions :
        /\ other # call.id
        /\ sessions[other]["access_token"] # ret.access_token
        /\ sessions[other]["instance_url"] # ret.instance_url

\* C6: create_session(b) returning id makes get_session(id) return exactly b;
\* no operation on another identifier changes what get_session(id) returns;
\* get_session returns the stored bundle; after delete_session(id) the lookup
\* is None, and a delete of an absent id changes nothing in the store.
C6_RoundTrip ==
    [][ /\ call'.op = "create_session" =>
                SessionLookup(sessions', call'.id) = call'.data
        /\ \A id \in SessionIds :
            call'.id # id => SessionLookup(sessions', id) = SessionLookup(sessions, id)
        /\ call'.op = "get_session" => ret' = SessionLookup(sessions, call'.id)
        /\ call'.op = "delete_session" =>
                /\ SessionLookup(sessions', call'.id) = None
                /\ call'.id \notin DOMAIN sessions => sessions' = sessions
      ]_vars

\* get_session returned a bundle while a session with a different bundle is
\* stored under another identifier
C6_Witness ==
    /\ call.op = "get_session"
    /\ call.id \in DOMAIN sessions
    /\ ret = sessions[call.id]
    /\ \E other \in DOMAIN sessions : other # call.id /\ sessions[other] # ret

\* C7: create_session never returns an identifier that is already a key of
\* the store, nor the identifier the create before it returned; it adds
\* exactly one key and leaves every existing bundle unchanged.
C7_CreateReturnsFreshId ==
    [][ call'.op = "create_session" =>
            /\ call'.id \notin DOMAIN sessions
            /\ call.op = "create_session" => call'.id # call.id
            /\ DOMAIN sessions' = DOMAIN sessions \cup {call'.id}
            /\ \A k \in DOMAIN sessions : sessions'[k] = sessions[k]
      ]_vars

\* C8: update_session on an absent id leaves the store unchanged; on a stored
\* id it overwrites the fields of partial, keeps every other field of that
\* bundle and changes no other session.
C8_UpdateFrame ==
    [][ call'.op = "update_session" =>
            LET id == call'.id
                p == call'.data
            IN  IF id \notin DOMAIN sessions
                    THEN sessions' = sessions
                    ELSE /\ DOMAIN sessions' = DOMAIN sessions
                         /\ \A f \in DOMAIN p : sessions'[id][f] = p[f]
                         /\ \A f \in DOMAIN sessions[id] \ DOMAIN p :
                                sessions'[id][f] = sessions[id][f]
                         /\ DOMAIN sessions'[id] = DOMAIN sessions[id] \cup DOMAIN p
                         /\ \A k \in DOMAIN sessions \ {id} : sessions'[k] = sessions[k]
      ]_vars

\* an update ran on an identifier that is not in the store while another
\* session is
C8_Witness ==
    /\ call.op = "update_session"
    /\ call.id \notin DOMAIN sessions
    /\ sessions # <<>>

\* C9: a stored session stays stored (get_session keeps returning a bundle)
\* across every step that is not delete_session of that very identifier.
C9_ValidUntilDeleted ==
    [][ \A id \in DOMAIN sessions :
            ~(call'.op = "delete_session" /\ call'.id = id) =>
                /\ id \in DOMAIN sessions'
                /\ SessionLookup(sessions', id) # None
      ]_vars

\* a session is still stored after another identifier was deleted
C9_Witness ==
    /\ call.op = "delete_session"
    /\ \E id \in DOMAIN sessions : id # call.id

(***************************************************************************)
(* Properties of query_all.                                                *)
(***************************************************************************)
\* C3: query_all terminates for every upstream behaviour: whatever the
\* upstream answers, the call eventually returns or fails (an upstream that
\* never reports done is cut off by a bound on the continuation loop).
C3_QueryAllTerminates == <>(qa_pc \in {"returned", "raised"})

\* the records of the pages 1..k of a log of responses, page after page
RECURSIVE PagesConcat(_, _)
PagesConcat(log, k) ==
    IF k = 0
        THEN <<>>
        ELSE PagesConcat(log, k - 1)
                \o (IF "records" \in DOMAIN log[k].body THEN log[k].body["records"] ELSE <<>>)

\* C4: at most one GET is in flight; request i+1 is sent only after response
\* i arrived and goes to instance_url + the nextRecordsUrl of page i; when
\* the upstream served k pages, done=false on the first k-1 and done on the
\* last, query_all returns the records of page 1, ..., page k in that order,
\* each once; it fails only on a non-2xx answer or a page without a
\* nextRecordsUrl.
C4_PagesInOrder ==
    /\ Len(inflight) <= 1
    /\ ~overrun =>
        /\ Len(requested) \in {Len(served), Len(served) + 1}
        /\ inflight # <<>> <=> Len(requested) = Len(served) + 1
        /\ \A i \in 1 .. Len(requested) - 1 :
            /\ served[i].status = 200
            /\ "done" \in DOMAIN served[i].body /\ served[i].body["done"] = FALSE
            /\ "nextRecordsUrl" \in DOMAIN served[i].body
            /\ requested[i + 1].url =
                    <<client.instance_url, served[i].body["nextRecordsUrl"]>>
        /\ qa_pc = "returned" =>
            /\ served # <<>>
            /\ Len(requested) = Len(served)
            /\ served[Len(served)].status = 200
            /\ "done" \in DOMAIN served[Len(served)].body =>
                    served[Len(served)].body["done"] = TRUE
            /\ qa_records = PagesConcat(served, Len(served))
            /\ \A i, j \in 1 .. Len(qa_records) : i < j =>
                    \/ qa_records[i][1] < qa_records[j][1]
                    \/ qa_records[i][1] = qa_records[j][1]
                        /\ qa_records[i][2] < qa_records[j][2]
        /\ qa_pc = "raised" =>
            /\ served # <<>>
            /\ \/ served[Len(served)].status # 200
               \/ "nextRecordsUrl" \notin DOMAIN served[Len(served)].body

\* a result of three pages, each with a record, was returned
C4_Witness ==
    /\ qa_pc = "returned"
    /\ ~overrun
    /\ Len(served) >= 3
    /\ \A i \in 1 .. 3 : served[i].status = 200 /\ Len(GetRecords(served[i].body)) >= 1
    /\ Len(qa_records) >= 3

(***************************************************************************)
(* Properties of list_opportunities.                                       *)
(***************************************************************************)
\* a request was answered with a result
ListAnswered == lpc = "done" /\ lresp.status = 200

\* C2: a result of list_opportunities has at most limit records, and
\* offset + the number of returned records is at most total.
C2_PageWithinTotal ==
    ListAnswered =>
        /\ Len(lresp.body.records) <= lreq.limit
        /\ lreq.offset + Len(lresp.body.records) <= lresp.body.total

\* the rows the filter of a request asks for: amount present, and every
\* supplied predicate (stage equality, owner equality, minimum amount)
Satisfies(row, req) ==
    /\ row.Amount # NullAmount
    /\ StrTruthy(req.stage) => row.StageName = req.stage[1]
    /\ StrTruthy(req.owner_id) => row.OwnerId = req.owner_id[1]
    /\ req.min_amount # Nothing => row.Amount >= req.min_amount[1]

\* C5: whatever the stage value v, quotes in it or not, the statement the
\* live provider builds matches only rows whose amount is present and whose
\* StageName equals v: every returned record has stage v and total counts
\* no row of another stage.
C5_StageFilterNotInjectable ==
    (ListAnswered /\ client # DemoClient /\ StrTruthy(lreq.stage)) =>
        /\ \A i \in 1 .. Len(lresp.body.records) :
                lresp.body.records[i].StageName = lreq.stage[1]
        /\ lresp.body.total <=
                Cardinality({ i \in 1 .. Len(df) :
                                /\ df[i].Amount # NullAmount
                                /\ df[i].StageName = lreq.stage[1] })

\* C10: total is the number of rows that satisfy the filter (amount present
\* and every supplied predicate); it depends on the table and the filters
\* only, not on limit and offset.
C10_TotalIsFilteredCount ==
    ListAnswered =>
        lresp.body.total =
            Cardinality({ i \in 1 .. Len(df) : Satisfies(df[i], lreq) })

\* the example of the fixture: stage A, at least 20, by amount, largest
\* first, the first two
ExampleRequest ==
    [limit |-> 2, offset |-> 0, stage |-> Some(<<W("A")>>), owner_id |-> Nothing,
     min_amount |-> Some(20), sort_by |-> "Amount", sort_dir |-> "DESC"]

\* row a is strictly before row b in the order a request asks for
AskedBefore(a, b, req) ==
    IF req.sort_dir \in {"ASC", "asc"}
        THEN a[req.sort_by] < b[req.sort_by]
        ELSE a[req.sort_by] > b[req.sort_by]

DemoAnswered(op) ==
    /\ dpc = "done"
    /\ client = DemoClient
    /\ dreq.op = op
    /\ dresp.status = 200

\* the sum of the amounts of the rows of a table at a set of positions
RECURSIVE AmountAt(_, _)
AmountAt(table, positions) ==
    IF positions = {} THEN 0
    ELSE LET i == CHOOSE x \in positions : TRUE
         IN  (IF table[i].Amount # NullAmount THEN table[i].Amount ELSE 0)
                + AmountAt(table, positions \ {i})

\* C12: the rows of the offline stage breakdown are strictly ascending by
\* stage name, so that no stage comes twice, and the count and total_amount
\* of a row are those of the non-closed opportunities of its stage, of which
\* there is at least one.
C12_StagesAscendingOpenOnly ==
    DemoAnswered("stages") =>
        LET rows == dresp.body.stages
            open(name) == { i \in 1 .. Len(df) :
                                df[i].StageName = name /\ df[i].IsClosed = FALSE }
        IN  /\ \A i, j \in 1 .. Len(rows) :
                    i < j => StageLess(rows[i].StageName, rows[j].StageName)
            /\ \A i \in 1 .. Len(rows) :
                /\ rows[i].cnt = Cardinality(open(rows[i].StageName))
                /\ rows[i].cnt >= 1
                /\ rows[i].total_amount = Float(AmountAt(df, open(rows[i].StageName)), 1)

\* a breakdown was returned over a table that has a closed opportunity of a
\* stage without an open one
C12_Witness ==
    /\ DemoAnswered("stages")
    /\ Len(dresp.body.stages) = 1
    /\ \E i \in 1 .. Len(df) :
            df[i].IsClosed = TRUE /\ df[i].StageName # dresp.body.stages[1].StageName

\* C13: the rows of the offline pipeline over time are strictly ascending by
\* (year, month), and the month of every row lies in the trailing window of
\* `months` months: not before the month that many months before the
\* current one, and not after the current month.
C13_PipelineWindow ==
    DemoAnswered("pipeline") =>
        LET rows == dresp.body.pipeline
            this == MonthIndex(YearOf(now.day), MonthOf(now.day))
        IN  /\ \A i, j \in 1 .. Len(rows) :
                    i < j => MonthLess(<<rows[i].year, rows[i].month>>,
                                       <<rows[j].year, rows[j].month>>)
            /\ \A i \in 1 .. Len(rows) :
                /\ MonthIndex(rows[i].year, rows[i].month) >= this - dreq.months
                /\ MonthIndex(rows[i].year, rows[i].month) <= this

\* a dashboard request of one operation was answered, by either provider
DashAnswered(op) ==
    /\ dpc = "done"
    /\ dreq.op = op
    /\ dresp.status = 200

\* a JSON value is a number
IsNumber(x) == DOMAIN x = {"num", "den"}

\* C14: in a KPI summary, of the demo provider over a table with open rows
\* that lack an amount as of the live provider over an empty or null
\* aggregate row, open_pipeline.average is total / count when count > 0 and
\* the number 0 when count = 0.
C14_AverageIsTotalOverCount ==
    DashAnswered("kpis") =>
        LET o == dresp.body.open_pipeline
        IN  /\ IsNumber(o.average)
            /\ IF o.count = 0 THEN o.average.num = 0
               ELSE /\ IsNumber(o.total)
                    /\ o.average.num * o.total.den * o.count = o.total.num * o.average.den

\* C15: the two providers return identically shaped results: a record of a
\* list_opportunities page has the field names the other provider gives the
\* record of the same row.
C15_SameFieldNames ==
    ListAnswered =>
        \A i \in 1 .. Len(lresp.body.records) :
            LET rec == lresp.body.records[i]
                other == IF client = DemoClient
                            THEN UpstreamRecord(df[rec.Id], SelectList)
                            ELSE DemoRecord(df[rec.Id])
            IN  DOMAIN rec = DOMAIN other

\* limit outside 1 .. 200 or offset below 0
OutOfRange(req) == req.limit < 1 \/ req.limit > 200 \/ req.offset < 0

\* C16: a list_opportunities request with limit outside 1 .. 200 or a
\* negative offset is answered with a validation error (422), and at no
\* time is a statement of it with the upstream: no provider operation runs.
C16_MalformedRejected ==
    (lpc # "idle" /\ OutOfRange(lreq)) =>
        /\ lpc \in {"start", "done"}
        /\ ltotal = 0
        /\ lpc = "done" => (lresp.status = 422 /\ lresp.body = <<>>)

\* a request with a limit above 200 was rejected on the live provider
C16_Witness ==
    /\ lpc = "done"
    /\ client # DemoClient
    /\ lreq.limit > 200
    /\ lresp.status = 422

\* C17: an invocation of exchange_code_for_tokens sends exactly one POST,
\* with the code it was given; after a response that is not 2xx it has
\* raised and sent no second POST; it returns only on a 2xx response, and
\* then the body of that response.
C17_OnePostPerExchange ==
    cb # <<>> =>
        /\ Len(posts) = (IF cb.exchange = "none" THEN 0 ELSE 1)
        /\ cb.exchange # "none" =>
                /\ posts[1].url = "TOKEN_URL"
                /\ posts[1].data.code = cb.code[1]
                /\ posts[1].data.grant_type = "authorization_code"
        /\ (cb.received # Nothing /\ ~(cb.received[1].status \in 200 .. 299)) =>
                /\ cb.exchange = "raised"
                /\ cb.tokens = Nothing
        /\ cb.exchange = "returned" =>
                /\ cb.received[1].status \in 200 .. 299
                /\ cb.tokens = Some(cb.received[1].body)

\* the exchange raised on a server error, one POST sent
C17_Witness ==
    /\ cb # <<>>
    /\ cb.exchange = "raised"
    /\ cb.received = Some([status |-> 500, body |-> [error |-> "invalid_grant"]])
    /\ Len(posts) = 1

\* coroutine t got a table from _load
Loaded(t) == tasks[t].pc = "done" /\ tasks[t].result # Nothing

C19_ReturnsNormalized ==
    tasks # <<>> =>
        \A t \in DOMAIN tasks :
            Loaded(t) =>
                /\ tasks[t].result[1].renamed
                /\ tasks[t].result[1].close
                /\ tasks[t].result[1].created

\* the store and the return value after one operation runs alone on a
\* store: the dict semantics of create, get, update and delete
Alone(store, task) ==
    CASE task.op = "create_session" ->
            [store |-> [k \in DOMAIN store \cup {task.id} |->
                            IF k = task.id THEN task.data ELSE store[k]],
             ret |-> [session_id |-> task.id]]
      [] task.op = "get_session" ->
            [store |-> store,
             ret |-> IF task.id \in DOMAIN store THEN store[task.id] ELSE None]
      [] task.op = "update_session" ->
            [store |-> [k \in DOMAIN store |->
                            IF k # task.id THEN store[k]
                            ELSE [f \in DOMAIN store[k] \cup DOMAIN task.data |->
                                    IF f \in DOMAIN task.data THEN task.data[f]
                                    ELSE store[k][f]]],
             ret |-> None]
      [] task.op = "delete_session" ->
            [store |-> [k \in DOMAIN store \ {task.id} |-> store[k]],
             ret |-> None]

\* the operations run one after the other in an order, from position k on:
\* they return what the coroutines returned and leave the store `final`
RECURSIVE InOrder(_, _, _, _)
InOrder(store, order, k, final) ==
    IF k > Len(order) THEN store = final
    ELSE LET task == tasks[order[k]]
             after == Alone(store, task)
         IN  /\ after.ret = task.ret
             /\ InOrder(after.store, order, k + 1, final)

\* the orders of the coroutines
Orders == { o \in [Tasks -> Tasks] : \A t, u \in Tasks : t # u => o[t] # o[u] }

\* every coroutine of the store specification has finished
AllFinished ==
    /\ tasks # <<>>
    /\ \A t \in DOMAIN tasks : "data" \in DOMAIN tasks[t] /\ tasks[t].pc \in {"done", "raised"}

\* C20: whatever the interleaving of concurrent create, get, update and
\* delete, no operation fails and the results and the final store are those
\* of the operations run one after the other in some order.
C20_Linearizable ==
    AllFinished =>
        /\ \A t \in DOMAIN tasks : tasks[t].pc = "done"
        /\ \E o \in Orders : InOrder(StoreAtStart, o, 1, sessions)

\* an update and a delete of the same session have both finished
C20_Witness ==
    /\ AllFinished
    /\ \E t, u \in DOMAIN tasks :
        /\ tasks[t].op = "update_session" /\ tasks[u].op = "delete_session"
        /\ tasks[t].id = 1 /\ tasks[u].id = 1

(***************************************************************************)
(* Failures of query_all.                                                  *)
(***************************************************************************)
\* the last answer of the log is a page that is not usable: a non-2xx
\* status, or done = false without a nextRecordsUrl
FaultyPage(resp) ==
    \/ resp.status < 200
    \/ resp.status >= 300
    \/ /\ "done" \in DOMAIN resp.body
       /\ resp.body["done"] = FALSE
       /\ "nextRecordsUrl" \notin DOMAIN resp.body

\* C21: when a page reports done = false without a nextRecordsUrl, or a page
\* request is answered with a non-2xx status, query_all fails: it never
\* returns a (partial) record list, and after the faulty page no further
\* request is sent; the call stays failed.
C21_FaultyPageFails ==
    /\ (~overrun /\ served # <<>> /\ Len(requested) = Len(served)
            /\ FaultyPage(served[Len(served)])) =>
        /\ qa_pc \in {"while", "raised"}
        /\ served[Len(served)].status \notin 200 .. 299 => qa_pc = "raised"
        /\ inflight = <<>>
    /\ (~overrun /\ \E i \in 1 .. Len(served) : FaultyPage(served[i])) =>
        /\ qa_pc # "returned"
        /\ FaultyPage(served[Len(served)])
        /\ Len(requested) = Len(served)
    /\ qa_pc = "raised" =>
        /\ inflight = <<>>
        /\ ~ENABLED QueryAllNext
        /\ ~overrun => Len(requested) = Len(served) /\ FaultyPage(served[Len(served)])

\* query_all failed on its second page, which reports done = false without a
\* nextRecordsUrl, with the records of the first page already collected
C21_Witness ==
    /\ qa_pc = "raised"
    /\ ~overrun
    /\ Len(served) = 2
    /\ served[2].status = 200
    /\ "done" \in DOMAIN served[2].body /\ served[2].body["done"] = FALSE
    /\ "nextRecordsUrl" \notin DOMAIN served[2].body
    /\ qa_records # <<>>

(***************************************************************************)
(* Properties of the KPI summary.                                          *)
(***************************************************************************)
\* the first day of the calendar quarter of a day, and the first day of the
\* quarter after it, three calendar months later
CalendarQuarterStart(day) ==
    Date(YearOf(day), (((MonthOf(day) - 1) \div 3) * 3) + 1, 1)

CalendarQuarterEnd(day) ==
    LET m == (((MonthOf(day) - 1) \div 3) * 3) + 4
    IN  IF m > 12 THEN Date(YearOf(day) + 1, m - 12, 1) ELSE Date(YearOf(day), m, 1)

\* the positions of the won (the lost) opportunities of a table that close
\* in the calendar quarter of a day
WonInQuarter(table, day) ==
    { i \in 1 .. Len(table) :
        /\ table[i].IsWon = TRUE
        /\ table[i].CloseDate >= CalendarQuarterStart(day)
        /\ table[i].CloseDate < CalendarQuarterEnd(day) }

LostInQuarter(table, day) ==
    { i \in 1 .. Len(table) :
        /\ table[i].IsClosed = TRUE /\ table[i].IsWon = FALSE
        /\ table[i].CloseDate >= CalendarQuarterStart(day)
        /\ table[i].CloseDate < CalendarQuarterEnd(day) }

\* C22: the offline won_this_quarter and lost_this_quarter cover the current
\* calendar quarter, from the first day of month ((month-1) div 3)*3+1 to
\* three calendar months later (exclusive): their count and total are those
\* of the won (lost) opportunities closing in that quarter, so that none of
\* the next quarter is counted and every one of the current quarter is.
C22_CalendarQuarterWindow ==
    DemoAnswered("kpis") =>
        /\ dresp.body.won_this_quarter.count = Cardinality(WonInQuarter(df, now.day))
        /\ dresp.body.won_this_quarter.total = Float(AmountAt(df, WonInQuarter(df, now.day)), 1)
        /\ dresp.body.lost_this_quarter.count = Cardinality(LostInQuarter(df, now.day))
        /\ dresp.body.lost_this_quarter.total = Float(AmountAt(df, LostInQuarter(df, now.day)), 1)

\* the positions of the non-closed opportunities of a table that have an
\* amount
OpenWithAmount(table) ==
    { i \in 1 .. Len(table) : table[i].IsClosed = FALSE /\ table[i].Amount # NullAmount }

\* C23: in a KPI summary of either provider, open_pipeline covers exactly
\* the non-closed opportunities that have an amount: its count is their
\* number, so that an open opportunity without an amount adds nothing to
\* it, and its total, when a number, is the sum of their amounts.
C23_OpenPipelineHasAmount ==
    DashAnswered("kpis") =>
        /\ dresp.body.open_pipeline.count = Cardinality(OpenWithAmount(df))
        /\ IsNumber(dresp.body.open_pipeline.total) =>
                dresp.body.open_pipeline.total = Float(AmountAt(df, OpenWithAmount(df)), 1)

(***************************************************************************)
(* Properties of the gateway.                                              *)
(***************************************************************************)
\* C24: session tokens are immutable once issued: no step of the login
\* callback, status, logout or the dashboard operations changes the
\* access_token, refresh_token or instance_url stored for a session that
\* stays in the store, and none of them is an update_session.
C24_TokensImmutable ==
    [][ /\ call'.op # "update_session"
        /\ \A s \in DOMAIN sessions \cap DOMAIN sessions' :
                /\ sessions'[s]["access_token"] = sessions[s]["access_token"]
                /\ sessions'[s]["instance_url"] = sessions[s]["instance_url"]
                /\ sessions'[s]["refresh_token"] = sessions[s]["refresh_token"]
      ]_vars

\* C25: after logout with session id s, s resolves nowhere for the rest of
\* the run: s is not a key of the store, in live mode every later run of
\* get_sf_client with s, for a dashboard or an opportunity request, raises
\* 401 Session expired, and every later auth_status with s reports
\* authenticated = false; a logout leaves every other session in the store,
\* with its bundle.
C25_LoggedOutStaysOut ==
    [][ /\ \A s \in loggedOut' :
            /\ s \notin DOMAIN sessions'
            /\ (call'.id = s /\ call'.op = "get_sf_client" /\ ~is_demo(settings')) =>
                    ret' = HTTPException(401, "Session expired")
            /\ (call'.id = s /\ call'.op = "auth_status") =>
                    ret' = [authenticated |-> FALSE]
        /\ call'.op = "logout" =>
                \A k \in DOMAIN sessions \ {call'.id} :
                    k \in DOMAIN sessions' /\ sessions'[k] = sessions[k]
      ]_vars

(***************************************************************************)
(* Properties of the login callback, continued.                            *)
(***************************************************************************)
\* C26: the login callback creates a session only after a successful token
\* exchange: a callback with an error parameter, without a code, or whose
\* exchange failed leaves the store unchanged and sets no cookie; a
\* successful one adds exactly one session, under the identifier it puts in
\* the cookie, holding the access_token, refresh_token (None when the
\* exchange returned none) and instance_url of that exchange, and leaves
\* every other session as it was.
C26_SessionOnlyAfterExchange ==
    [][ (cb.pc # "done" /\ cb'.pc = "done") =>
            IF /\ ~ParamTruthy(cb.error)
               /\ ParamTruthy(cb.code)
               /\ cb'.exchange = "returned"
               /\ {"access_token", "instance_url"} \subseteq DOMAIN cb'.tokens[1]
                THEN /\ cb'.response.cookie # Nothing
                     /\ Cardinality(DOMAIN sessions') = Cardinality(DOMAIN sessions) + 1
                     /\ DOMAIN sessions' = DOMAIN sessions \cup {cb'.response.cookie[1]}
                     /\ \A k \in DOMAIN sessions : sessions'[k] = sessions[k]
                     /\ LET stored == sessions'[cb'.response.cookie[1]]
                             tokens == cb'.received[1].body
                         IN  /\ DOMAIN stored = Fields
                             /\ stored["access_token"] = tokens["access_token"]
                             /\ stored["instance_url"] = tokens["instance_url"]
                             /\ IF "refresh_token" \in DOMAIN tokens
                                    THEN stored["refresh_token"] = tokens["refresh_token"]
                                    ELSE stored["refresh_token"] = None
                ELSE /\ sessions' = sessions
                     /\ "cookie" \in DOMAIN cb'.response => cb'.response.cookie = Nothing
      ]_<<cb.pc>>

====
